---- MODULE Spec2Model ----
(***************************************************************************)
(* A model of the advisory index and query engine of the GitHub Advisory   *)
(* MCP server: LocalRepositoryDataSource (the lazily built in-memory       *)
(* cache, the directory walk, the OSV normalizer, list/get/search), the    *)
(* REST adapter in front of it and the MCP tool that calls the REST API.   *)
(*                                                                         *)
(* Strings whose characters matter (identifiers, timestamps, date filters, *)
(* package names, query-string numbers) are sequences of one-character     *)
(* strings; an optional value is <<>> (undefined / null / NaN) or <<v>>.   *)
(***************************************************************************)
EXTENDS Integers, Sequences, FiniteSets, TLC

(***************************************************************************)
(* Bounds of the model.                                                    *)
(***************************************************************************)
NumCallers == 2

MaxDiskChanges == 1

(***************************************************************************)
(* JavaScript strings.                                                     *)
(***************************************************************************)

\* The characters of the model's strings in UTF-16 code unit order (the
\* order of the relational operators < and >= on strings).
UpperCase ==
  << "A", "B", "C", "D", "E", "F", "G", "H", "I", "J", "K", "L", "M",
     "N", "O", "P", "Q", "R", "S", "T", "U", "V", "W", "X", "Y", "Z" >>

LowerCase ==
  << "a", "b", "c", "d", "e", "f", "g", "h", "i", "j", "k", "l", "m",
     "n", "o", "p", "q", "r", "s", "t", "u", "v", "w", "x", "y", "z" >>

CodeUnitOrder ==
  << "-", ".", "0", "1", "2", "3", "4", "5", "6", "7", "8", "9", ":" >>
  \o UpperCase \o LowerCase

\* The same characters in the order of the default (root) collation that
\* String.prototype.localeCompare uses: punctuation, digits, letters.
CollationOrder ==
  << "-", ":", ".", "0", "1", "2", "3", "4", "5", "6", "7", "8", "9" >>
  \o [i \in 1..52 |-> IF i % 2 = 1 THEN LowerCase[(i + 1) \div 2] ELSE UpperCase[i \div 2]]

Rank(order, ch) == CHOOSE i \in 1..Len(order) : order[i] = ch

Min(a, b) == IF a < b THEN a ELSE b

\* F applied to the value of e, which is evaluated once.
Once(e, F(_)) == CHOOSE r \in {F(v) : v \in {e}} : TRUE

Max(a, b) == IF a > b THEN a ELSE b

\* -1, 0 or 1: the comparison of two strings character by character under
\* the given character order, a proper prefix being smaller.
Compare(order, a, b) ==
  LET n == Min(Len(a), Len(b))
      diff == {i \in 1..n : a[i] # b[i]}
  IN IF diff = {}
       THEN (IF Len(a) < Len(b) THEN -1 ELSE IF Len(a) > Len(b) THEN 1 ELSE 0)
       ELSE LET k == CHOOSE i \in diff : \A j \in diff : i <= j
            IN IF Rank(order, a[k]) < Rank(order, b[k]) THEN -1 ELSE 1

\* a < b and a >= b on strings.
StrLess(a, b) == Compare(CodeUnitOrder, a, b) < 0

StrGeq(a, b) == Compare(CodeUnitOrder, a, b) >= 0

localeCompare(a, b) == Compare(CollationOrder, a, b)

LowerChar(ch) ==
  IF \E i \in 1..26 : UpperCase[i] = ch
  THEN LowerCase[CHOOSE i \in 1..26 : UpperCase[i] = ch]
  ELSE ch

toLowerCase(s) == [i \in 1..Len(s) |-> LowerChar(s[i])]

includes(s, q) ==
  \E i \in 0..(Len(s) - Len(q)) : SubSeq(s, i + 1, i + Len(q)) = q

startsWith(s, p) == Len(s) >= Len(p) /\ SubSeq(s, 1, Len(p)) = p

\* The index of the first occurrence of q in s (1-based), 0 when absent.
indexOf(s, q) ==
  LET at == {i \in 1..(Len(s) - Len(q) + 1) : SubSeq(s, i, i + Len(q) - 1) = q}
  IN IF at = {} THEN 0 ELSE CHOOSE i \in at : \A j \in at : i <= j

\* Truthiness of an optional string, number and enumeration value: present
\* and not '', not 0 (NaN is modelled as absent).
TruthyStr(opt) == opt # <<>> /\ opt[1] # <<>>

TruthyNum(opt) == opt # <<>> /\ opt[1] # 0

TruthyAtom(opt) == opt # <<>> /\ opt[1] # ""

\* Array.prototype.find: the first element satisfying the test, as an option.
FirstOf(matching) == IF matching = <<>> THEN <<>> ELSE <<Head(matching)>>

\* Array.prototype.slice(start, end), negative positions counting from the end.
Slice(s, start, end) ==
  LET len == Len(s)
      from == IF start < 0 THEN Max(len + start, 0) ELSE Min(start, len)
      to == IF end < 0 THEN Max(len + end, 0) ELSE Min(end, len)
  IN IF from < to THEN SubSeq(s, from + 1, to) ELSE <<>>

(***************************************************************************)
(* JavaScript dates: new Date('YYYY-MM-DDT00:00:00Z'), setUTCDate and      *)
(* toISOString, on day numbers since 1970-01-01.                           *)
(***************************************************************************)
DigitChars == <<"0", "1", "2", "3", "4", "5", "6", "7", "8", "9">>

DigitValue(ch) == (CHOOSE i \in 1..10 : DigitChars[i] = ch) - 1

IsDigit(ch) == \E i \in 1..10 : DigitChars[i] = ch

Pad2(n) == <<DigitChars[(n \div 10) + 1], DigitChars[(n % 10) + 1]>>

Pad4(n) == Pad2(n \div 100) \o Pad2(n % 100)

\* MakeDay: the day number of year y, month m (1..12), day-of-month d; a
\* day beyond the month's end runs on into the next month.
MakeDay(y, m, d) ==
  LET yy == IF m <= 2 THEN y - 1 ELSE y
      era == yy \div 400
      yoe == yy - era * 400
      mp == IF m > 2 THEN m - 3 ELSE m + 9
      doy == (153 * mp + 2) \div 5
      doe == yoe * 365 + yoe \div 4 - yoe \div 100 + doy
  IN era * 146097 + doe - 719468 + (d - 1)

\* YearFromTime / MonthFromTime / DateFromTime of a day number.
CivilFromDay(z) ==
  LET zz == z + 719468
      era == zz \div 146097
      doe == zz - era * 146097
      yoe == (doe - doe \div 1460 + doe \div 36524 - doe \div 146096) \div 365
      doy == doe - (365 * yoe + yoe \div 4 - yoe \div 100)
      mp == (5 * doy + 2) \div 153
      d == doy - (153 * mp + 2) \div 5 + 1
      m == IF mp < 10 THEN mp + 3 ELSE mp - 9
      y == yoe + era * 400 + (IF m <= 2 THEN 1 ELSE 0)
  IN [y |-> y, m |-> m, d |-> d]

MidnightSuffix == <<"T", "0", "0", ":", "0", "0", ":", "0", "0", "Z">>

\* new Date(s) for s = 'YYYY-MM-DD' + 'T00:00:00Z': the day number, or
\* <<>> (Invalid Date) when s has another shape.
ParseDate(s) ==
  IF /\ Len(s) = 20
     /\ \A i \in {1, 2, 3, 4, 6, 7, 9, 10} : IsDigit(s[i])
     /\ s[5] = "-" /\ s[8] = "-"
     /\ SubSeq(s, 11, 20) = MidnightSuffix
  THEN LET y == 1000 * DigitValue(s[1]) + 100 * DigitValue(s[2])
                + 10 * DigitValue(s[3]) + DigitValue(s[4])
           m == 10 * DigitValue(s[6]) + DigitValue(s[7])
           d == 10 * DigitValue(s[9]) + DigitValue(s[10])
       IN IF m \in 1..12 /\ d \in 1..31 THEN <<MakeDay(y, m, d)>> ELSE <<>>
  ELSE <<>>

\* Date.prototype.toISOString of midnight of a day number: always with
\* milliseconds.
toISOString(day) ==
  LET c == CivilFromDay(day)
  IN Pad4(c.y) \o <<"-">> \o Pad2(c.m) \o <<"-">> \o Pad2(c.d)
     \o <<"T", "0", "0", ":", "0", "0", ":", "0", "0", ".", "0", "0", "0", "Z">>

(***************************************************************************)
(* The OSV record of one advisory file and its normalization.              *)
(***************************************************************************)
CvePrefix == <<"C", "V", "E", "-">>

\* osv.details.split('\n')[0]
FirstLine(s) ==
  LET nl == indexOf(s, <<"\n">>)
  IN IF nl = 0 THEN s ELSE SubSeq(s, 1, nl - 1)

\* osvToAdvisory throws a TypeError when it calls a method of a missing
\* property: osv.aliases.find, osv.database_specific.cwe_ids.map.
osvToAdvisoryThrows(osv) == osv.aliases = <<>> \/ osv.database_specific = <<>>

osvToAdvisory(osv) ==
  LET cve == FirstOf(SelectSeq(osv.aliases[1], LAMBDA al : startsWith(al, CvePrefix)))
      cveId == IF TruthyStr(cve) THEN cve[1] ELSE <<>>
      db == osv.database_specific[1]
  IN [ ghsa_id |-> osv.id,
       cve_id |-> cveId,
       summary |-> IF TruthyStr(osv.summary) THEN osv.summary[1]
                   ELSE FirstLine(osv.details),
       description |-> osv.details,
       type |-> "reviewed",
       severity |-> toLowerCase(db.severity),
       published_at |-> osv.published,
       updated_at |-> osv.modified,
       withdrawn_at |-> IF TruthyStr(osv.withdrawn) THEN osv.withdrawn ELSE <<>>,
       vulnerabilities |->
         [i \in 1..Len(osv.affected) |->
            [package |-> [ecosystem |-> osv.affected[i].package.ecosystem,
                          name |-> osv.affected[i].package.name]]],
       cwes |-> [i \in 1..Len(db.cwe_ids) |->
                   [cwe_id |-> db.cwe_ids[i], name |-> db.cwe_ids[i]]] ]

(***************************************************************************)
(* The cache: a Map, which keeps its entries in insertion order and keeps  *)
(* the position of a key whose value is set again.                         *)
(***************************************************************************)
CacheHas(cch, id) == \E i \in 1..Len(cch) : cch[i].ghsa_id = id

\* Mutant: the first record of an identifier is kept.
CacheSet_KeepsFirst(cch, adv) ==
  IF CacheHas(cch, adv.ghsa_id) THEN cch ELSE Append(cch, adv)

CacheSet(cch, adv) ==
  IF CacheHas(cch, adv.ghsa_id)
  THEN [i \in 1..Len(cch) |-> IF cch[i].ghsa_id = adv.ghsa_id THEN adv ELSE cch[i]]
  ELSE Append(cch, adv)

CacheKeys(cch) == {cch[i].ghsa_id : i \in 1..Len(cch)}

(***************************************************************************)
(* The query engine.                                                       *)
(***************************************************************************)
DefaultPerPage == 30

DefaultPage == 1

DotDot == <<".", ".">>

\* The result of a call that may throw.
Threw == [threw |-> TRUE]

Returned(v) == [threw |-> FALSE, value |-> v]

\* dateStr.split('..'): the first two parts.
SplitRange(dateStr) ==
  LET i == indexOf(dateStr, DotDot)
      rest == SubSeq(dateStr, i + 2, Len(dateStr))
      j == indexOf(rest, DotDot)
  IN [start |-> SubSeq(dateStr, 1, i - 1),
      end |-> IF j = 0 THEN rest ELSE SubSeq(rest, 1, j - 1)]

\* parseDateFilter: toISOString throws a RangeError on an Invalid Date.
parseDateFilter(dateStr) ==
  IF includes(dateStr, DotDot)
  THEN LET parts == SplitRange(dateStr)
           endDate == ParseDate(parts.end \o MidnightSuffix)
       IN IF endDate = <<>> THEN Threw
          ELSE Returned([start |-> parts.start \o MidnightSuffix,
                         end |-> toISOString(endDate[1] + 1)])
  ELSE LET startDate == ParseDate(dateStr \o MidnightSuffix)
       IN IF startDate = <<>> THEN Threw
          ELSE Returned([start |-> toISOString(startDate[1]),
                         end |-> toISOString(startDate[1] + 1)])

DateField(a, field) == IF field = "published_at" THEN a.published_at ELSE a.updated_at

InDateRange(date, range) == StrGeq(date, range.start) /\ StrLess(date, range.end)

filterByDateRange(advisories, field, dateStr) ==
  Once(parseDateFilter(dateStr), LAMBDA parsed :
    IF parsed.threw THEN Threw
    ELSE Returned(SelectSeq(advisories,
                    LAMBDA a : InDateRange(DateField(a, field), parsed.value))))

\* Mutant: the comparator without its direction.
SortCompare_IgnoresDirection(a, b, sortField, direction) ==
  LET aDate == IF sortField = "published" THEN a.published_at ELSE a.updated_at
      bDate == IF sortField = "published" THEN b.published_at ELSE b.updated_at
  IN localeCompare(bDate, aDate)

\* The comparator of results.sort.
SortCompare(a, b, sortField, direction) ==
  LET aDate == IF sortField = "published" THEN a.published_at ELSE a.updated_at
      bDate == IF sortField = "published" THEN b.published_at ELSE b.updated_at
  IN IF direction = <<"asc">> THEN localeCompare(aDate, bDate)
     ELSE localeCompare(bDate, aDate)

\* One step of a stable sort: x goes behind the last element that does not
\* sort after it.
SortInsert(sorted, x, sortField, direction) ==
  LET notAfter == {i \in 1..Len(sorted) :
                     SortCompare(sorted[i], x, sortField, direction) <= 0}
      k == IF notAfter = {} THEN 0
           ELSE CHOOSE i \in notAfter : \A j \in notAfter : j <= i
  IN SubSeq(sorted, 1, k) \o <<x>> \o SubSeq(sorted, k + 1, Len(sorted))

\* The elements s[lo..hi] go into sorted one after the other, in their
\* order in s.
RECURSIVE InsertRange(_, _, _, _, _, _)
InsertRange(sorted, s, lo, hi, sortField, direction) ==
  IF lo > hi THEN sorted
  ELSE IF lo = hi THEN SortInsert(sorted, s[lo], sortField, direction)
  ELSE Once(InsertRange(sorted, s, lo, (lo + hi) \div 2, sortField, direction),
            LAMBDA left :
              InsertRange(left, s, ((lo + hi) \div 2) + 1, hi, sortField, direction))

\* Array.prototype.sort, which is stable.
Sort(s, sortField, direction) == InsertRange(<<>>, s, 1, Len(s), sortField, direction)

\* Mutant: only the first vulnerability entry is looked at.
HasEcosystem_FirstEntryOnly(a, eco) ==
  a.vulnerabilities # <<>> /\ a.vulnerabilities[1].package.ecosystem = eco

\* a.vulnerabilities.some(v => v.package.ecosystem === options.ecosystem)
HasEcosystem(a, eco) ==
  \E i \in 1..Len(a.vulnerabilities) : a.vulnerabilities[i].package.ecosystem = eco

HasCwe(a, cwes) ==
  \E i \in 1..Len(a.cwes) : \E j \in 1..Len(cwes) : cwes[j] = a.cwes[i].cwe_id

\* Mutant: the package name has to equal the filter string.
Affects_ExactName(a, name) ==
  \E i \in 1..Len(a.vulnerabilities) : a.vulnerabilities[i].package.name = name

\* a.vulnerabilities.some(v => v.package.name.includes(options.affects))
Affects(a, name) ==
  \E i \in 1..Len(a.vulnerabilities) : includes(a.vulnerabilities[i].package.name, name)

\* The filters of listAdvisories that cannot throw, in the code's order.
ApplyFilters(cch, options) ==
  LET r1 == IF TruthyStr(options.ghsa_id)
            THEN SelectSeq(cch, LAMBDA a : a.ghsa_id = options.ghsa_id[1]) ELSE cch
      r2 == IF TruthyStr(options.cve_id)
            THEN SelectSeq(r1, LAMBDA a : a.cve_id = options.cve_id[1]) ELSE r1
      r3 == IF TruthyAtom(options.ecosystem)
            THEN SelectSeq(r2, LAMBDA a : HasEcosystem(a, options.ecosystem[1])) ELSE r2
      r4 == IF TruthyStr(options.severity)
            THEN SelectSeq(r3, LAMBDA a :
                   toLowerCase(a.severity) = toLowerCase(options.severity[1]))
            ELSE r3
      r5 == IF options.cwes # <<>> /\ Len(options.cwes[1]) > 0
            THEN SelectSeq(r4, LAMBDA a : HasCwe(a, options.cwes[1])) ELSE r4
      r6 == IF options.is_withdrawn # <<>>
            THEN SelectSeq(r5, LAMBDA a :
                   IF options.is_withdrawn[1] THEN a.withdrawn_at # <<>>
                   ELSE a.withdrawn_at = <<>>)
            ELSE r5
  IN IF TruthyStr(options.affects)
     THEN SelectSeq(r6, LAMBDA a : Affects(a, options.affects[1])) ELSE r6

\* Mutant: pages counted from zero.
StartIndex_FromZero(page, perPage) == page * perPage

\* const startIndex = (page - 1) * perPage
StartIndex(page, perPage) == (page - 1) * perPage

\* The pagination of listAdvisories.
Paginate(results, options) ==
  LET perPage == IF TruthyNum(options.per_page) THEN options.per_page[1]
                 ELSE DefaultPerPage
      page == IF TruthyNum(options.page) THEN options.page[1] ELSE DefaultPage
      startIndex == StartIndex(page, perPage)
  IN Slice(results, startIndex, startIndex + perPage)

\* The sort of listAdvisories.
SortResults(results, options) ==
  Once(IF TruthyAtom(options.sort) THEN options.sort[1] ELSE "published",
       LAMBDA sortField : Sort(results, sortField, options.direction))

\* listAdvisories up to its pagination: the filters and the sort.
FilterAndSort(cch, options) ==
  LET ByPublished(r7) ==
        IF TruthyStr(options.published)
        THEN filterByDateRange(r7, "published_at", options.published[1])
        ELSE Returned(r7)
      ByUpdated(r8) ==
        IF r8.threw THEN Threw
        ELSE IF TruthyStr(options.updated)
        THEN filterByDateRange(r8.value, "updated_at", options.updated[1])
        ELSE r8
      Sorted(r9) ==
        IF r9.threw THEN Threw ELSE Returned(SortResults(r9.value, options))
  IN Once(ApplyFilters(cch, options), LAMBDA r7 :
       Once(ByPublished(r7), LAMBDA r8 :
         Once(ByUpdated(r8), Sorted)))

\* listAdvisories, after buildIndex, on the cache it reads.
listAdvisories(cch, options) ==
  Once(FilterAndSort(cch, options), LAMBDA sorted :
    IF sorted.threw THEN Threw ELSE Returned(Paginate(sorted.value, options)))

\* getAdvisory, after buildIndex: the advisory, or <<>> for null.
getAdvisory(cch, ghsaId) ==
  FirstOf(SelectSeq(cch, LAMBDA a : a.ghsa_id = ghsaId))

filterResults(results, options) ==
  LET r1 == IF TruthyAtom(options.ecosystem)
            THEN SelectSeq(results, LAMBDA a : HasEcosystem(a, options.ecosystem[1]))
            ELSE results
      r2 == IF TruthyStr(options.severity)
            THEN SelectSeq(r1, LAMBDA a :
                   toLowerCase(a.severity) = toLowerCase(options.severity[1]))
            ELSE r1
      perPage == IF TruthyNum(options.per_page) THEN options.per_page[1]
                 ELSE DefaultPerPage
  IN Slice(r2, 0, perPage)

\* Mutant: the query is compared as it was typed.
searchAdvisories_CaseSensitive(cch, query, options) ==
  Once(SelectSeq(cch, LAMBDA a :
         \/ includes(toLowerCase(a.summary), query)
         \/ includes(toLowerCase(a.description), query)
         \/ includes(toLowerCase(a.ghsa_id), query)
         \/ includes(toLowerCase(a.cve_id), query)),
       LAMBDA results : filterResults(results, options))

\* searchAdvisories, after buildIndex.
searchAdvisories(cch, query, options) ==
  Once(toLowerCase(query), LAMBDA queryLower :
    Once(SelectSeq(cch, LAMBDA a :
           \/ includes(toLowerCase(a.summary), queryLower)
           \/ includes(toLowerCase(a.description), queryLower)
           \/ includes(toLowerCase(a.ghsa_id), queryLower)
           \/ includes(toLowerCase(a.cve_id), queryLower)),
         LAMBDA results : filterResults(results, options)))

\* The options of a call without arguments.
NoOptions ==
  [ghsa_id |-> <<>>, cve_id |-> <<>>, ecosystem |-> <<>>, severity |-> <<>>,
   cwes |-> <<>>, is_withdrawn |-> <<>>, affects |-> <<>>, published |-> <<>>,
   updated |-> <<>>, per_page |-> <<>>, page |-> <<>>, sort |-> <<>>,
   direction |-> <<>>]

(***************************************************************************)
(* The REST adapter (GET /advisories, /advisories/:ghsa_id, /search).      *)
(***************************************************************************)

\* The value of a run of decimal digits.
RECURSIVE DigitsValue(_)
DigitsValue(ds) ==
  IF ds = <<>> THEN 0
  ELSE 10 * Once(SubSeq(ds, 1, Len(ds) - 1), DigitsValue) + DigitValue(ds[Len(ds)])

\* parseInt(s): an optional sign and the longest run of digits behind it;
\* NaN, modelled as absent, when there is no digit.
parseInt(s) ==
  LET neg == s # <<>> /\ s[1] = "-"
      body == IF neg THEN Tail(s) ELSE s
      stop == {i \in 1..Len(body) : ~IsDigit(body[i])}
      n == IF stop = {} THEN Len(body)
           ELSE (CHOOSE i \in stop : \A j \in stop : i <= j) - 1
      v == DigitsValue(SubSeq(body, 1, n))
  IN IF n = 0 THEN <<>> ELSE <<IF neg THEN 0 - v ELSE v>>

\* The options GET /advisories builds from the query string.
RestListOptions(query) ==
  [ghsa_id |-> query.ghsa_id,
   cve_id |-> query.cve_id,
   ecosystem |-> query.ecosystem,
   severity |-> query.severity,
   cwes |-> IF TruthyStr(query.cwes) THEN << <<query.cwes[1]>> >> ELSE <<>>,
   is_withdrawn |-> IF query.is_withdrawn = <<"true">> THEN <<TRUE>>
                    ELSE IF query.is_withdrawn = <<"false">> THEN <<FALSE>>
                    ELSE <<>>,
   affects |-> query.affects,
   published |-> query.published,
   updated |-> query.updated,
   per_page |-> IF TruthyStr(query.per_page) THEN parseInt(query.per_page[1]) ELSE <<>>,
   page |-> IF TruthyStr(query.page) THEN parseInt(query.page[1]) ELSE <<>>,
   sort |-> IF TruthyAtom(query.sort) THEN query.sort ELSE <<"published">>,
   direction |-> IF TruthyAtom(query.direction) THEN query.direction ELSE <<"desc">>]

\* GET /advisories: 200 with the array, 500 when the data source throws.
RestList(cch, query) ==
  Once(RestListOptions(query), LAMBDA options :
    Once(listAdvisories(cch, options), LAMBDA r :
      IF r.threw THEN [status |-> 500, body |-> <<>>]
      ELSE [status |-> 200, body |-> r.value]))

\* GET /advisories/:ghsa_id: 200 with the advisory, 404 when it is null.
RestGet(cch, ghsaId) ==
  LET advisory == getAdvisory(cch, ghsaId)
  IN IF advisory = <<>> THEN [status |-> 404, body |-> <<>>]
     ELSE [status |-> 200, body |-> advisory]

\* The options GET /search builds from the query string.
RestSearchOptions(query) ==
  [NoOptions EXCEPT
     !.ecosystem = query.ecosystem,
     !.severity = query.severity,
     !.per_page = IF TruthyStr(query.per_page) THEN parseInt(query.per_page[1])
                  ELSE <<>>]

\* GET /search: 400 without q, otherwise 200 with the array.
RestSearch(cch, q, query) ==
  IF ~TruthyStr(q) THEN [status |-> 400, body |-> <<>>]
  ELSE Once(RestSearchOptions(query), LAMBDA options :
         [status |-> 200, body |-> searchAdvisories(cch, q[1], options)])

\* A query string without parameters.
NoQuery ==
  [ghsa_id |-> <<>>, cve_id |-> <<>>, ecosystem |-> <<>>, severity |-> <<>>,
   cwes |-> <<>>, is_withdrawn |-> <<>>, affects |-> <<>>, published |-> <<>>,
   updated |-> <<>>, per_page |-> <<>>, page |-> <<>>, sort |-> <<>>,
   direction |-> <<>>]

(***************************************************************************)
(* The list_advisories tool, which calls GET /advisories.                  *)
(***************************************************************************)

\* String(n) of an integer.
RECURSIVE NumberToString(_)
NumberToString(n) ==
  IF n < 0 THEN <<"-">> \o NumberToString(0 - n)
  ELSE IF n < 10 THEN <<DigitChars[n + 1]>>
  ELSE Once(n \div 10, NumberToString) \o <<DigitChars[(n % 10) + 1]>>

\* per_page: z.number().min(1).max(100) of listAdvisoriesSchema, and the
\* maximum the tool's inputSchema advertises.
MaxPerPage == 100

\* The arguments of a tool call without arguments.
NoParams ==
  [ghsa_id |-> <<>>, cve_id |-> <<>>, ecosystem |-> <<>>, severity |-> <<>>,
   cwes |-> <<>>, is_withdrawn |-> <<>>, affects |-> <<>>, published |-> <<>>,
   updated |-> <<>>, per_page |-> <<>>, page |-> <<>>, sort |-> <<>>,
   direction |-> <<>>]

\* Mutant: an argument goes into the query string only when it is truthy,
\* so is_withdrawn: false is left out.
buildQueryString_OnlyTruthy(params) ==
  [ghsa_id |-> IF TruthyStr(params.ghsa_id) THEN params.ghsa_id ELSE <<>>,
   cve_id |-> IF TruthyStr(params.cve_id) THEN params.cve_id ELSE <<>>,
   ecosystem |-> IF TruthyAtom(params.ecosystem) THEN params.ecosystem ELSE <<>>,
   severity |-> IF TruthyStr(params.severity) THEN params.severity ELSE <<>>,
   cwes |-> IF TruthyStr(params.cwes) THEN params.cwes ELSE <<>>,
   is_withdrawn |-> IF params.is_withdrawn = <<TRUE>> THEN <<"true">> ELSE <<>>,
   affects |-> IF TruthyStr(params.affects) THEN params.affects ELSE <<>>,
   published |-> IF TruthyStr(params.published) THEN params.published ELSE <<>>,
   updated |-> IF TruthyStr(params.updated) THEN params.updated ELSE <<>>,
   per_page |-> IF TruthyNum(params.per_page)
                THEN <<NumberToString(params.per_page[1])>> ELSE <<>>,
   page |-> IF TruthyNum(params.page) THEN <<NumberToString(params.page[1])>> ELSE <<>>,
   sort |-> IF TruthyAtom(params.sort) THEN params.sort ELSE <<>>,
   direction |-> IF TruthyAtom(params.direction) THEN params.direction ELSE <<>>]

\* buildQueryString and the parse of the query string by the REST server:
\* every argument that is not undefined, null or '' goes in as String(value).
buildQueryString(params) ==
  [ghsa_id |-> IF TruthyStr(params.ghsa_id) THEN params.ghsa_id ELSE <<>>,
   cve_id |-> IF TruthyStr(params.cve_id) THEN params.cve_id ELSE <<>>,
   ecosystem |-> IF TruthyAtom(params.ecosystem) THEN params.ecosystem ELSE <<>>,
   severity |-> IF TruthyStr(params.severity) THEN params.severity ELSE <<>>,
   cwes |-> IF TruthyStr(params.cwes) THEN params.cwes ELSE <<>>,
   is_withdrawn |-> IF params.is_withdrawn = <<>> THEN <<>>
                    ELSE IF params.is_withdrawn[1] THEN <<"true">> ELSE <<"false">>,
   affects |-> IF TruthyStr(params.affects) THEN params.affects ELSE <<>>,
   published |-> IF TruthyStr(params.published) THEN params.published ELSE <<>>,
   updated |-> IF TruthyStr(params.updated) THEN params.updated ELSE <<>>,
   per_page |-> IF params.per_page = <<>> THEN <<>>
                ELSE <<NumberToString(params.per_page[1])>>,
   page |-> IF params.page = <<>> THEN <<>> ELSE <<NumberToString(params.page[1])>>,
   sort |-> IF TruthyAtom(params.sort) THEN params.sort ELSE <<>>,
   direction |-> IF TruthyAtom(params.direction) THEN params.direction ELSE <<>>]

\* One advisory as the tool reports it.
ToolSummary(adv) ==
  [ghsa_id |-> adv.ghsa_id, cve_id |-> adv.cve_id, summary |-> adv.summary,
   severity |-> adv.severity, type |-> adv.type,
   published_at |-> adv.published_at, updated_at |-> adv.updated_at,
   affected_packages |->
     [i \in 1..Len(adv.vulnerabilities) |-> adv.vulnerabilities[i].package],
   cwes |-> adv.cwes]

\* The tool listAdvisories: the arguments go into the query string as they
\* are, and a response that is not ok becomes an error result whose text
\* names the status of the response.
ToolListAdvisories(cch, params) ==
  Once(RestList(cch, buildQueryString(params)), LAMBDA r :
    IF r.status # 200
    THEN [isError |-> TRUE, status |-> r.status, count |-> 0, advisories |-> <<>>]
    ELSE [isError |-> FALSE, status |-> r.status, count |-> Len(r.body),
          advisories |-> [i \in 1..Len(r.body) |-> ToolSummary(r.body[i])]])

\* The text of an error: 'Local API error (status)'.
LocalApiError(status) ==
  <<"L", "o", "c", "a", "l", " ", "A", "P", "I", " ", "e", "r", "r", "o", "r", " ", "(">>
  \o NumberToString(status) \o <<")">>

\* The route the REST server takes for the path '/advisories/' + rest, where
\* rest holds no '/', '?' or '#': with nothing after the slash the path is
\* that of app.get('/advisories') (express() routes without strict
\* matching of the trailing slash), otherwise rest is req.params.ghsa_id.
RouteAdvisories(cch, rest) ==
  IF rest = <<>> THEN RestList(cch, NoQuery) ELSE RestGet(cch, rest)

\* The tool getAdvisory: getAdvisorySchema.parse throws without a string
\* ghsa_id; the identifier goes into the path as it is; a response that is
\* not ok is thrown as 'Local API error (status)', and every error becomes a
\* result with isError and the text 'Error fetching advisory <id>: <message>'.
\* Otherwise the text is the JSON of the response body (field json).
ToolGetAdvisory(cch, params) ==
  LET ErrorText(id, message) ==
        <<"E", "r", "r", "o", "r", " ", "f", "e", "t", "c", "h", "i", "n", "g", " ",
          "a", "d", "v", "i", "s", "o", "r", "y", " ">> \o id \o <<":", " ">> \o message
  IN IF params.ghsa_id = <<>>
     THEN [isError |-> TRUE, status |-> 0, json |-> <<>>,
           text |-> ErrorText(<<"u", "n", "k", "n", "o", "w", "n">>,
                              <<"Z", "o", "d", "E", "r", "r", "o", "r">>)]
     ELSE Once(RouteAdvisories(cch, params.ghsa_id[1]), LAMBDA r :
            IF r.status # 200
            THEN [isError |-> TRUE, status |-> r.status, json |-> <<>>,
                  text |-> ErrorText(IF TruthyStr(params.ghsa_id) THEN params.ghsa_id[1]
                                     ELSE <<"u", "n", "k", "n", "o", "w", "n">>,
                                     LocalApiError(r.status))]
            ELSE [isError |-> FALSE, status |-> r.status, json |-> <<r.body>>,
                  text |-> <<>>])

\* The response to a request, computed from the cache the data source
\* reads once buildIndex has returned.
RestRespond(cch, request) ==
  IF request.op = "list" THEN RestList(cch, request.query)
  ELSE IF request.op = "get" THEN RestGet(cch, request.ghsa_id)
  ELSE IF request.op = "list_advisories" THEN ToolListAdvisories(cch, request.params)
  ELSE IF request.op = "get_advisory" THEN ToolGetAdvisory(cch, request.params)
  ELSE RestSearch(cch, request.q, request.query)

(***************************************************************************)
(* The advisory tree on disk.                                              *)
(***************************************************************************)

\* An ISO-8601 timestamp as the advisory database writes it (no milliseconds).
Iso(y, m, d, hh, mi, ss) ==
  Pad4(y) \o <<"-">> \o Pad2(m) \o <<"-">> \o Pad2(d) \o <<"T">> \o Pad2(hh)
  \o <<":">> \o Pad2(mi) \o <<":">> \o Pad2(ss) \o <<"Z">>

G1 == <<"G", "H", "S", "A", "-", "1">>

G2 == <<"G", "H", "S", "A", "-", "2">>

G3 == <<"G", "H", "S", "A", "-", "3">>

Cve1 == <<"C", "V", "E", "-", "1">>

Cwe79 == <<"C", "W", "E", "-", "7", "9">>

Cwe89 == <<"C", "W", "E", "-", "8", "9">>

\* A well-formed OSV record.
Osv(id, published, modified, aliases, severity, ecosystem, name) ==
  [id |-> id, published |-> published, modified |-> modified, withdrawn |-> <<>>,
   aliases |-> <<aliases>>, summary |-> <<>>, details |-> <<"x", "s", "s">>,
   affected |-> <<[package |-> [ecosystem |-> ecosystem, name |-> name]]>>,
   database_specific |-> <<[cwe_ids |-> <<Cwe79>>, severity |-> severity]>>]

High == <<"H", "I", "G", "H">>

Low == <<"L", "O", "W">>

OsvG1 == Osv(G1, Iso(2026, 1, 27, 10, 0, 0), Iso(2026, 1, 27, 10, 0, 0),
             <<Cve1>>, High, "npm", <<"l", "i", "e">>)

\* A second file defining GHSA-1 again, with other content.
OsvG1Dup == Osv(G1, Iso(2026, 1, 27, 10, 0, 0), Iso(2026, 1, 28, 0, 0, 0),
                <<>>, Low, "npm", <<"l", "i", "e">>)

OsvG2 == Osv(G2, Iso(2026, 1, 28, 0, 0, 0), Iso(2026, 1, 28, 0, 0, 0),
             <<>>, Low, "pip", <<"a", "x">>)

OsvG3 == Osv(G3, Iso(2025, 12, 31, 23, 59, 59), Iso(2026, 1, 27, 10, 0, 0),
             <<>>, High, "pip", <<"g", "o">>)

\* Valid JSON of another shape: no aliases array.
OsvNoAliases == [OsvG2 EXCEPT !.aliases = <<>>]

\* What readFile and JSON.parse make of a file: its OSV record, text that
\* is no JSON, or a read error.
Json(osv) == [kind |-> "json", osv |-> osv]

Garbage == [kind |-> "garbage"]

Unreadable == [kind |-> "unreadable"]

\* The file contents of the model, by name.
ContentNames == {"G1", "G1dup", "G2", "G3", "noaliases", "garbage", "unreadable"}

Content(name) ==
  CASE name = "G1" -> Json(OsvG1)
    [] name = "G1dup" -> Json(OsvG1Dup)
    [] name = "G2" -> Json(OsvG2)
    [] name = "G3" -> Json(OsvG3)
    [] name = "noaliases" -> Json(OsvNoAliases)
    [] name = "garbage" -> Garbage
    [] OTHER -> Unreadable

\* A file is well-formed when it can be read, parsed and normalized.
WellFormed(body) == body.kind = "json" /\ ~osvToAdvisoryThrows(body.osv)

RootDir == "github-reviewed"

DirNames == {RootDir, "2025"}

FileNames == {"a.json", "b.json", "c.json"}

Dirent(name, type) == [name |-> name, type |-> type]

\* readdir's entries, per directory: a subdirectory, a file that is no
\* .json file, a .json file, and an entry that is neither file nor directory.
Entries ==
  [d \in DirNames |->
     IF d = RootDir
       THEN <<Dirent("2025", "dir"), Dirent("README.md", "file"),
              Dirent("c.json", "file"), Dirent("latest", "other")>>
     ELSE <<Dirent("a.json", "file"), Dirent("b.json", "file")>>]

\* entry.name.endsWith('.json')
EndsWithJson(name) == name \in FileNames

\* The files of a tree whose first file has the given content.
FilesWith(first) ==
  [f \in FileNames |-> IF f = "a.json" THEN first ELSE IF f = "b.json" THEN "G1" ELSE "G3"]

\* The trees a process may start on.  With every directory readable the
\* first file defines GHSA-1 too, defines GHSA-2, has valid JSON of
\* another shape, or is no JSON; or one subtree cannot be read; or not even
\* the root can (the tree is missing).
InitialTrees ==
  {[readable |-> [d \in DirNames |-> TRUE], files |-> FilesWith(first)] :
     first \in {"G1dup", "G2", "noaliases", "garbage"}}
  \cup {[readable |-> [d \in DirNames |-> d = RootDir], files |-> FilesWith("G2")],
        [readable |-> [d \in DirNames |-> FALSE], files |-> FilesWith("G2")]}

(***************************************************************************)
(* State.                                                                  *)
(***************************************************************************)
VARIABLES
  readable,       \* directory -> whether readdir succeeds
  files,          \* file name -> the name of its content
  cache,          \* this.cache, in insertion order
  indexBuilt,     \* this.indexBuilt
  pc,             \* per call: "idle", "readdir" or "readFile"
  stack,          \* per call: the indexDirectory frames of its walk
  pending,        \* per call: the directory or file whose read it awaits
  last,           \* the latest request answered: the request, the response,
                  \* and what the call saw when it read the cache
  walkCompleted,  \* history: some walk of the tree has run to its end
  diskChanges,    \* history: number of changes made to the tree
  transports,     \* http-server: session id -> transport
  sessionTimeouts, \* http-server: session id -> the timer of its timeout
  timers,         \* the timers set and not yet fired or cleared
  closed,         \* the transports close() was called on
  clock,          \* the time in milliseconds
  uuids,          \* number of identifiers randomUUID has returned
  lastRequestAt,  \* history: session id -> time its timeout was last set
  expired,        \* history: the session ids cleaned up by their timeout
  event,          \* the latest step of the MCP endpoint and its outcome
  ticks,          \* history: number of steps of the clock
  gitDir,         \* whether <repoPath>/.git exists
  head,           \* the commit HEAD of the clone points to
  originMain,     \* the commit origin/main of the clone points to
  remote,         \* the commit main points to at the origin
  refreshes,      \* the calls of refreshAdvisoryDatabase, in the order started
  intervalTimer,  \* the timer of setInterval: "none", "active" or "cleared"
  elapsed,        \* history: number of times the interval has elapsed
  stopCalls,      \* history: number of calls of the stop function
  invoked,        \* the call of a function under study: its name and arguments
  returned        \* what that call has returned so far

indexVars == <<readable, files, cache, indexBuilt, pc, stack, pending, last,
               walkCompleted, diskChanges>>

sessionVars == <<transports, sessionTimeouts, timers, closed, clock, uuids,
                 lastRequestAt, expired, event, ticks>>

refreshVars == <<gitDir, head, originMain, remote, refreshes, intervalTimer, elapsed,
                 stopCalls>>

callVars == <<invoked, returned>>

vars == <<indexVars, sessionVars, refreshVars, callVars>>

\* The MCP endpoint after the module is loaded: both tables are {}.
NoSessions ==
  /\ transports = <<>>
  /\ sessionTimeouts = <<>>
  /\ timers = {}
  /\ closed = {}
  /\ clock = 0
  /\ uuids = 0
  /\ lastRequestAt = <<>>
  /\ expired = {}
  /\ event = [kind |-> "none"]
  /\ ticks = 0

\* No refresh was called and no periodic refresh started.
NoRefresh ==
  /\ refreshes = <<>>
  /\ intervalTimer = "none"
  /\ elapsed = 0
  /\ stopCalls = 0

\* No function under study has been called.
NoCalls ==
  /\ invoked = [fn |-> "none"]
  /\ returned = <<>>

\* A clone of the advisory database that is up to date.
CloneUpToDate ==
  /\ gitDir = TRUE
  /\ head = 1
  /\ originMain = 1
  /\ remote = 1

Callers == 1..NumCallers

NoRequest == [op |-> "none"]

NoResponse == [status |-> 0, body |-> <<>>]

\* Before any request has been answered.
NoAnswer ==
  [caller |-> 0, request |-> NoRequest, response |-> NoResponse, store |-> <<>>,
   walked |-> FALSE, afterWalk |-> FALSE, built |-> FALSE, changes |-> 0,
   raced |-> FALSE]

(***************************************************************************)
(* buildIndex and indexDirectory.  A call runs without interruption from   *)
(* one await of readdir or readFile to the next; the continuations after   *)
(* the walk (indexBuilt = true, the read of the cache) run in the same     *)
(* turn as the completion of its last read.                                *)
(***************************************************************************)

\* Mutant: buildIndex without its early return.
SkipsWalk_Never(built) == FALSE

\* buildIndex line 173: whether the call returns without walking.
SkipsWalk(built) == built

\* Mutant: indexBuilt set before the walk is awaited.
indexBuiltDuringWalk_SetEarly(built) == TRUE

\* this.indexBuilt while the walk of the call that started it is under way.
indexBuiltDuringWalk(built) == built

\* Mutant: no try around the file; the catch around the directory ends
\* the walk of that directory.
AfterFileError_NoInnerTry(st) == SubSeq(st, 1, Len(st) - 1)

\* What is left of the walk when readFile, JSON.parse or osvToAdvisory
\* throws: the inner catch logs, and the loop goes on with the next entry.
AfterFileError(st) == st

\* Mutant: the failure of one readdir ends the whole walk.
AfterReaddirError_EndsWalk(st) == <<>>

\* What is left of the walk when readdir throws: the catch of that
\* indexDirectory call logs and returns to the directory above.
AfterReaddirError(st) == st

\* The walk from where it stands to its next await: a directory entry
\* starts a nested indexDirectory (readdir), a .json file a readFile, any
\* other entry is skipped; a finished directory returns to the one above.
\* A frame holds the entries readdir returned and the index of the entry
\* being processed.
RECURSIVE RunLoop(_)
RunLoop(st) ==
  IF st = <<>> THEN [pc |-> "done", stack |-> <<>>, pending |-> ""]
  ELSE LET top == st[Len(st)]
           i == top.i + 1
           st2 == [st EXCEPT ![Len(st)].i = i]
       IN IF i > Len(top.entries) THEN Once(SubSeq(st, 1, Len(st) - 1), RunLoop)
          ELSE IF top.entries[i].type = "dir"
            THEN [pc |-> "readdir", stack |-> st2, pending |-> top.entries[i].name]
          ELSE IF top.entries[i].type = "file" /\ EndsWithJson(top.entries[i].name)
            THEN [pc |-> "readFile", stack |-> st2, pending |-> top.entries[i].name]
          ELSE Once(st2, RunLoop)

\* The requests of the index specification.
IndexRequests ==
  {[op |-> "list", query |-> NoQuery],
   [op |-> "get", ghsa_id |-> G1],
   [op |-> "search", q |-> << <<"x", "S">> >>, query |-> NoQuery]}

\* The call reads the cache and answers; its client may then make its
\* next request.  walked: the call walked the tree itself; completed and
\* built: a walk had run to its end, and indexBuilt was set, when it read;
\* raced: the call walked the tree and another call's walk ended before its
\* own did.
Answer(c, request, cch, walked, completed, built) ==
  /\ pc' = [pc EXCEPT ![c] = "idle"]
  /\ stack' = [stack EXCEPT ![c] = <<>>]
  /\ pending' = [pending EXCEPT ![c] = ""]
  /\ last' = [caller |-> c, request |-> request,
              response |-> RestRespond(cch, request), store |-> cch,
              walked |-> walked, afterWalk |-> completed, built |-> built,
              changes |-> diskChanges, raced |-> walked /\ walkCompleted]

\* The walk of call c goes on from stack st with cache cch.  What the
\* request asks for plays no part in the walk, so the model draws it when
\* the call comes to read the cache.
Continue(c, st, cch) ==
  \E r \in {RunLoop(st)} : \E store \in {cch} :
     /\ cache' = store
     /\ IF r.pc = "done"
        THEN /\ indexBuilt' = TRUE
             /\ walkCompleted' = TRUE
             /\ \E request \in IndexRequests : Answer(c, request, store, TRUE, TRUE, TRUE)
        ELSE /\ pc' = [pc EXCEPT ![c] = r.pc]
             /\ stack' = [stack EXCEPT ![c] = r.stack]
             /\ pending' = [pending EXCEPT ![c] = r.pending]
             /\ UNCHANGED <<indexBuilt, walkCompleted, last>>

\* A request arrives: the handler calls listAdvisories, getAdvisory or
\* searchAdvisories, which calls buildIndex.
Call(c) ==
  /\ pc[c] = "idle"
  /\ IF SkipsWalk(indexBuilt)
     THEN /\ \E request \in IndexRequests :
               Answer(c, request, cache, FALSE, walkCompleted, indexBuilt)
          /\ UNCHANGED <<cache, indexBuilt, walkCompleted>>
     ELSE /\ pc' = [pc EXCEPT ![c] = "readdir"]
          /\ pending' = [pending EXCEPT ![c] = RootDir]
          /\ indexBuilt' = indexBuiltDuringWalk(indexBuilt)
          /\ UNCHANGED <<cache, stack, last, walkCompleted>>
  /\ UNCHANGED <<readable, files, diskChanges>>
  /\ UNCHANGED <<sessionVars, refreshVars, callVars>>

\* readdir of the awaited directory completes or fails.
ReaddirDone(c) ==
  /\ pc[c] = "readdir"
  /\ IF readable[pending[c]]
     THEN Continue(c, Append(stack[c], [entries |-> Entries[pending[c]], i |-> 0]), cache)
     ELSE Continue(c, AfterReaddirError(stack[c]), cache)
  /\ UNCHANGED <<readable, files, diskChanges>>
  /\ UNCHANGED <<sessionVars, refreshVars, callVars>>

\* readFile of the awaited file completes or fails; the text is parsed,
\* normalized and stored.
ReadFileDone(c) ==
  /\ pc[c] = "readFile"
  /\ IF WellFormed(Content(files[pending[c]]))
     THEN Continue(c, stack[c],
                   CacheSet(cache, osvToAdvisory(Content(files[pending[c]]).osv)))
     ELSE Continue(c, AfterFileError(stack[c]), cache)
  /\ UNCHANGED <<readable, files, diskChanges>>
  /\ UNCHANGED <<sessionVars, refreshVars, callVars>>

\* What a refresh may leave in the place of a file: another revision of
\* an advisory, or nothing.
RefreshBodies == {"G1dup", "unreadable"}

\* The refresh of the clone (git fetch and reset) rewrites a file.
DiskChange(f, body) ==
  /\ diskChanges < MaxDiskChanges
  /\ files[f] # body
  /\ files' = [files EXCEPT ![f] = body]
  /\ diskChanges' = diskChanges + 1
  /\ UNCHANGED <<readable, cache, indexBuilt, pc, stack, pending, last,
                 walkCompleted>>
  /\ UNCHANGED <<sessionVars, refreshVars, callVars>>

\* A fresh data source with no call under way.
FreshProcess ==
  /\ cache = <<>>
  /\ indexBuilt = FALSE
  /\ pc = [c \in Callers |-> "idle"]
  /\ stack = [c \in Callers |-> <<>>]
  /\ pending = [c \in Callers |-> ""]
  /\ last = NoAnswer
  /\ walkCompleted = FALSE
  /\ diskChanges = 0
  /\ NoSessions
  /\ NoRefresh
  /\ NoCalls
  /\ CloneUpToDate

Init ==
  /\ \E tree \in InitialTrees : readable = tree.readable /\ files = tree.files
  /\ FreshProcess

Next ==
  \/ \E c \in Callers : Call(c)
  \/ \E c \in Callers : ReaddirDone(c)
  \/ \E c \in Callers : ReadFileDone(c)
  \/ \E f \in FileNames : \E body \in RefreshBodies : DiskChange(f, body)

Spec == Init /\ [][Next]_vars

(***************************************************************************)
(* The index: what a walk of the tree is to produce.                       *)
(***************************************************************************)

\* The .json files below a list of directory entries, in traversal order,
\* leaving out the subtrees that cannot be read.
RECURSIVE JsonFilesOf(_)
JsonFilesOf(entries) ==
  IF entries = <<>> THEN <<>>
  ELSE LET e == Head(entries)
           here == IF e.type = "dir"
                     THEN (IF readable[e.name] THEN JsonFilesOf(Entries[e.name]) ELSE <<>>)
                   ELSE IF e.type = "file" /\ EndsWithJson(e.name) THEN <<e.name>>
                   ELSE <<>>
       IN here \o Once(Tail(entries), JsonFilesOf)

TreeFiles == IF readable[RootDir] THEN JsonFilesOf(Entries[RootDir]) ELSE <<>>

WellFormedTreeFiles ==
  {TreeFiles[i] : i \in {j \in 1..Len(TreeFiles) : WellFormed(Content(files[TreeFiles[j]]))}}

WellFormedIds == {Content(files[f]).osv.id : f \in WellFormedTreeFiles}

InFlight == {c \in Callers : pc[c] # "idle"}

\* A build has finished, none is under way, and the tree is as it was.
Settled == indexBuilt /\ InFlight = {} /\ diskChanges = 0

Answered == last.caller # 0

\* C1: every call reads the cache only after a complete walk of the tree
\* has finished, and what it reads is no partially populated store: over
\* an unchanged tree it holds an entry for every well-formed file.
C1_ReadsAfterCompleteWalk ==
  Answered =>
    /\ last.afterWalk
    /\ diskChanges = 0 => CacheKeys(last.store) = WellFormedIds

\* Two first callers raced; one has answered from the complete store while
\* the other is still walking.
C1_Witness ==
  /\ Answered /\ last.walked /\ Len(last.store) = 2
  /\ InFlight # {}

\* C2: at most one index build (tree walk) is in flight at any time.
C2_AtMostOneBuildInFlight == Cardinality(InFlight) <= 1

\* C3: once a build has completed and no walk is under way, no step (a later
\* call, a change of the tree on disk) starts a read of a directory or file
\* or changes the store: N sequential calls leave the store of the first.
C3_IdempotentBuild ==
  [][(indexBuilt /\ InFlight = {}) =>
       (indexBuilt' /\ InFlight' = {} /\ cache' = cache)]_vars

\* A call answered without a walk after the tree had changed on disk, the
\* store no longer being what the tree holds.
C3_Witness ==
  /\ Answered /\ ~last.walked /\ last.changes > 0
  /\ InFlight = {}
  /\ CacheKeys(cache) # WellFormedIds

\* C4: once indexBuilt is true the store never changes again.
C4_StoreFrozenOnceBuilt == [][indexBuilt => cache' = cache]_vars

\* C5: a file whose parse or normalization fails is skipped and the walk
\* goes on: the finished store holds exactly one entry per identifier of a
\* well-formed file, each the normalization of such a file.
C5_MalformedFileSkipped ==
  Settled =>
    /\ CacheKeys(cache) = WellFormedIds
    /\ Len(cache) = Cardinality(WellFormedIds)
    /\ \A i \in 1..Len(cache) :
         \E f \in WellFormedTreeFiles : cache[i] = osvToAdvisory(Content(files[f]).osv)

\* A finished build of a tree of three files, one of them malformed: two entries.
C5_Witness ==
  /\ Settled /\ Len(TreeFiles) = 3
  /\ \E f \in FileNames : ~WellFormed(Content(files[f]))
  /\ Len(cache) = 2

\* C6: a directory that cannot be read is skipped and its siblings are
\* indexed; when the root cannot be read the build completes with an empty
\* store, list and search answer 200 with an empty array and get answers
\* 404 (absent).
C6_UnreadableDirectorySkipped ==
  /\ (Settled /\ readable[RootDir] /\ ~readable["2025"]) =>
       CacheKeys(cache) = {Content(files["c.json"]).osv.id}
  /\ (Answered /\ ~readable[RootDir]) =>
       /\ indexBuilt /\ cache = <<>>
       /\ last.response.body = <<>>
       /\ last.response.status = IF last.request.op = "get" THEN 404 ELSE 200

\* The subtree 2025 could not be read and the list shows its sibling c.json.
C6_Witness ==
  /\ Answered /\ readable[RootDir] /\ ~readable["2025"]
  /\ last.request.op = "list" /\ last.response.status = 200
  /\ Len(last.response.body) = 1

(***************************************************************************)
(* The query engine on a built index.  The store stands for the index of   *)
(* a tree of as many advisory files; the variables of the tree and of the  *)
(* walk play no part.  The store never changes here, so a behaviour is one *)
(* request to one store.                                                   *)
(***************************************************************************)

\* Bounds: the sizes of the stores and the highest page requested.
SmallStoreSize == 12

PageStoreSize == 35

LargeStoreSize == 101

MaxPage == 3

Pad3(n) == <<DigitChars[(n \div 100) + 1]>> \o Pad2(n % 100)

\* A timestamp with milliseconds, as toISOString writes it.
IsoMs(y, m, d, hh, mi, ss, ms) ==
  SubSeq(Iso(y, m, d, hh, mi, ss), 1, 19) \o <<".">> \o Pad3(ms) \o <<"Z">>

\* The timestamps of the advisories: the ends and starts of days, months
\* and years, a leap day, and two timestamps with milliseconds.
Timestamps ==
  << Iso(2026, 1, 27, 10, 0, 0),  Iso(2026, 1, 28, 0, 0, 0),
     Iso(2026, 1, 31, 23, 59, 59), Iso(2026, 2, 1, 0, 0, 0),
     Iso(2025, 12, 31, 23, 59, 59), Iso(2026, 1, 1, 0, 0, 0),
     Iso(2024, 2, 29, 12, 0, 0),  Iso(2024, 3, 1, 0, 0, 0),
     IsoMs(2026, 1, 1, 0, 0, 0, 0), IsoMs(2026, 1, 26, 23, 59, 59, 999),
     Iso(2024, 2, 28, 23, 59, 59), Iso(2026, 1, 27, 0, 0, 0) >>

GhsaId(i) == <<"G", "H", "S", "A", "-">> \o NumberToString(i)

\* The i-th advisory file: the timestamps recur, so that advisories tie,
\* and neither field is in the order of the files.
QueryOsv(i) ==
  Osv(GhsaId(i),
      Timestamps[((i - 1) % Len(Timestamps)) + 1],
      Timestamps[((5 * i) % Len(Timestamps)) + 1],
      <<>>, IF i % 2 = 0 THEN High ELSE Low,
      IF i % 3 = 0 THEN "pip" ELSE "npm", <<"l", "i", "b">>)

\* The cache after the walk of a tree of n such files.
QueryStore(n) == [i \in 1..n |-> osvToAdvisory(QueryOsv(i))]

QueryStores == {QueryStore(n) : n \in {SmallStoreSize, PageStoreSize, LargeStoreSize}}

\* An absent query parameter, or the number n written out.
OptionalNumbers(ns) == {<<>>} \cup {<<NumberToString(n)>> : n \in ns}

PerPages == {1, 2, DefaultPerPage, MaxPerPage, MaxPerPage + 1}

\* GET /advisories?per_page=..&page=..
PageQueries ==
  {[NoQuery EXCEPT !.per_page = perPage, !.page = page] :
     perPage \in OptionalNumbers(PerPages), page \in OptionalNumbers(1..MaxPage)}

\* GET /advisories?sort=..&direction=..
SortQueries ==
  {[NoQuery EXCEPT !.sort = sort, !.direction = direction] :
     sort \in {<<>>, <<"published">>, <<"updated">>},
     direction \in {<<>>, <<"asc">>, <<"desc">>}}

FilterDates ==
  { <<2026, 1, 27>>, <<2026, 1, 31>>, <<2025, 12, 31>>, <<2026, 1, 1>>,
    <<2024, 2, 28>>, <<2024, 2, 29>> }

DateString(date) ==
  Pad4(date[1]) \o <<"-">> \o Pad2(date[2]) \o <<"-">> \o Pad2(date[3])

\* The date filters: a single date, or a range of two.
DateFilters ==
  {DateString(d) : d \in FilterDates}
  \cup {DateString(s) \o DotDot \o DateString(e) : s \in FilterDates, e \in FilterDates}

\* GET /advisories?published=.. and GET /advisories?updated=..
DateQueries ==
  {[NoQuery EXCEPT !.published = <<f>>] : f \in DateFilters}
  \cup {[NoQuery EXCEPT !.updated = <<f>>] : f \in DateFilters}

QueryRequests ==
  {[op |-> "list", query |-> query] :
     query \in PageQueries \cup SortQueries \cup DateQueries}

\* The arguments of the list_advisories calls.
ToolRequests ==
  {[op |-> "list_advisories", params |-> [NoParams EXCEPT !.per_page = perPage]] :
     perPage \in {<<>>} \cup {<<n>> : n \in PerPages}}

\* GET /advisories arrives at a server whose index is built.
GetAdvisories(c) ==
  /\ pc[c] = "idle" /\ indexBuilt /\ ~Answered
  /\ \E request \in QueryRequests :
       Answer(c, request, cache, FALSE, walkCompleted, indexBuilt)
  /\ UNCHANGED <<readable, files, cache, indexBuilt, walkCompleted, diskChanges>>
  /\ UNCHANGED <<sessionVars, refreshVars, callVars>>

\* A list_advisories tool call arrives; its handler calls GET /advisories.
CallListAdvisories(c) ==
  /\ pc[c] = "idle" /\ indexBuilt /\ ~Answered
  /\ \E request \in ToolRequests :
       Answer(c, request, cache, FALSE, walkCompleted, indexBuilt)
  /\ UNCHANGED <<readable, files, cache, indexBuilt, walkCompleted, diskChanges>>
  /\ UNCHANGED <<sessionVars, refreshVars, callVars>>

\* A process whose index has been built, with no call under way.
QueryInit ==
  /\ readable = [d \in DirNames |-> TRUE]
  /\ files = FilesWith("G2")
  /\ cache \in QueryStores
  /\ indexBuilt = TRUE
  /\ pc = [c \in Callers |-> "idle"]
  /\ stack = [c \in Callers |-> <<>>]
  /\ pending = [c \in Callers |-> ""]
  /\ last = NoAnswer
  /\ walkCompleted = TRUE
  /\ diskChanges = 0
  /\ NoSessions
  /\ NoRefresh
  /\ NoCalls
  /\ CloneUpToDate

\* Pages below the first one asked for: 0 down to -MaxPagesBelow.
MaxPagesBelow == 2

\* GET /advisories?per_page=..&page=.. with page 0 or negative.
PagesBelowQueries ==
  {[NoQuery EXCEPT !.per_page = perPage, !.page = <<NumberToString(0 - below)>>] :
     perPage \in OptionalNumbers({1, 2, DefaultPerPage}), below \in 0..MaxPagesBelow}

\* GET /advisories with a page below the first arrives at a server whose
\* index is built.
GetAdvisoriesBelow(c) ==
  /\ pc[c] = "idle" /\ indexBuilt /\ ~Answered
  /\ \E query \in PagesBelowQueries :
       Answer(c, [op |-> "list", query |-> query], cache, FALSE, walkCompleted, indexBuilt)
  /\ UNCHANGED <<readable, files, cache, indexBuilt, walkCompleted, diskChanges>>
  /\ UNCHANGED <<sessionVars, refreshVars, callVars>>

QueryNext ==
  \/ \E c \in Callers : GetAdvisories(c)
  \/ \E c \in Callers : CallListAdvisories(c)
  \/ \E c \in Callers : GetAdvisoriesBelow(c)

SpecQuery == QueryInit /\ [][QueryNext]_vars

(***************************************************************************)
(* Pagination, the page size limit, the sort and the date filters.         *)
(***************************************************************************)

\* The latest request answered was a GET /advisories.
ListAnswered == Answered /\ last.request.op = "list"

\* The position of an advisory in the store.
StoreIndex(a) == CHOOSE i \in 1..Len(last.store) : last.store[i].ghsa_id = a.ghsa_id

\* C7: for page >= 1 and per_page >= 1 (30 and 1 when absent) list returns
\* exactly the elements at positions [(page-1)*per_page, page*per_page) of
\* the filtered and sorted sequence, and an empty sequence with status 200
\* when (page-1)*per_page is at or beyond the number of matches.
C7_PageIsSliceOfMatches ==
  ListAnswered =>
    \A options \in {RestListOptions(last.request.query)} :
    \A matches \in {FilterAndSort(last.store, options)} :
      LET perPage == IF options.per_page = <<>> THEN 30 ELSE options.per_page[1]
          page == IF options.page = <<>> THEN 1 ELSE options.page[1]
          from == (page - 1) * perPage
          upto == IF page * perPage < Len(matches.value) THEN page * perPage
                  ELSE Len(matches.value)
      IN (page >= 1 /\ perPage >= 1 /\ ~matches.threw) =>
           /\ last.response.status = 200
           /\ Len(last.response.body) = (IF from >= upto THEN 0 ELSE upto - from)
           /\ \A k \in 1..Len(last.response.body) :
                last.response.body[k] = matches.value[from + k]

\* Page 2 of 30 of the store of 35 advisories: the last 5.
C7_Witness ==
  /\ ListAnswered /\ Len(last.store) = PageStoreSize
  /\ last.request.query.per_page = << <<"3", "0">> >>
  /\ last.request.query.page = << <<"2">> >>
  /\ Len(last.response.body) = PageStoreSize - 30

\* C8: neither a list_advisories tool call nor a GET /advisories request
\* yields more than 100 advisories.
C8_AtMostHundredResults ==
  /\ ListAnswered => Len(last.response.body) <= 100
  /\ (Answered /\ last.request.op = "list_advisories") => last.response.count <= 100

\* C9: the sequence list returns is ordered by the requested timestamp
\* field (published unless updated is asked for), compared as strings:
\* non-decreasing for direction=asc, non-increasing otherwise; advisories
\* with identical timestamps keep the order they have in the store.
C9_SortedAndStable ==
  (ListAnswered /\ last.response.status = 200) =>
    LET body == last.response.body
        key(a) == IF last.request.query.sort = <<"updated">> THEN a.updated_at
                  ELSE a.published_at
    IN \A k \in 1..(Len(body) - 1) :
         /\ IF last.request.query.direction = <<"asc">>
            THEN ~StrLess(key(body[k + 1]), key(body[k]))
            ELSE ~StrLess(key(body[k]), key(body[k + 1]))
         /\ key(body[k]) = key(body[k + 1]) =>
              StoreIndex(body[k]) < StoreIndex(body[k + 1])

\* An ascending list by updated timestamp that is not in store order and
\* has both a tie and a strict step between neighbours.
C9_Witness ==
  /\ ListAnswered /\ last.response.status = 200
  /\ last.request.query.sort = <<"updated">>
  /\ last.request.query.direction = <<"asc">>
  /\ LET body == last.response.body
     IN /\ \E k \in 1..(Len(body) - 1) :
             /\ body[k].updated_at = body[k + 1].updated_at
             /\ StoreIndex(body[k]) < StoreIndex(body[k + 1])
        /\ \E k \in 1..(Len(body) - 1) : StrLess(body[k].updated_at, body[k + 1].updated_at)
        /\ \E k \in 1..(Len(body) - 1) : StoreIndex(body[k]) > StoreIndex(body[k + 1])

\* The calendar: the date after a date <<year, month, day>>.
IsLeapYear(y) == y % 4 = 0 /\ (y % 100 # 0 \/ y % 400 = 0)

DaysInMonth(y, m) ==
  IF m = 2 THEN (IF IsLeapYear(y) THEN 29 ELSE 28)
  ELSE IF m \in {4, 6, 9, 11} THEN 30 ELSE 31

NextDay(date) ==
  IF date[3] < DaysInMonth(date[1], date[2]) THEN <<date[1], date[2], date[3] + 1>>
  ELSE IF date[2] < 12 THEN <<date[1], date[2] + 1, 1>>
  ELSE <<date[1] + 1, 1, 1>>

\* The date a string starts with, and the instant an ISO-8601 UTC
\* timestamp names: <<year, month, day, hour, minute, second, millisecond>>.
DateOf(s) ==
  <<DigitsValue(SubSeq(s, 1, 4)), DigitsValue(SubSeq(s, 6, 7)),
    DigitsValue(SubSeq(s, 9, 10))>>

InstantOf(t) ==
  DateOf(t) \o <<DigitsValue(SubSeq(t, 12, 13)), DigitsValue(SubSeq(t, 15, 16)),
                 DigitsValue(SubSeq(t, 18, 19)),
                 IF t[20] = "." THEN DigitsValue(SubSeq(t, 21, 23)) ELSE 0>>

Midnight(date) == date \o <<0, 0, 0, 0>>

Before(a, b) == \E k \in 1..7 : a[k] < b[k] /\ \A j \in 1..(k - 1) : a[j] = b[j]

\* t lies in [D 00:00:00Z, D+1 day 00:00:00Z) for a filter D, in
\* [S 00:00:00Z, E+1 day 00:00:00Z) for a filter S..E.
MatchesDateFilter(t, filter) ==
  LET first == DateOf(filter)
      final == IF Len(filter) > 10 THEN DateOf(SubSeq(filter, 13, 22)) ELSE first
  IN /\ ~Before(InstantOf(t), Midnight(first))
     /\ Before(InstantOf(t), Midnight(NextDay(final)))

\* C10: a published or updated filter D, or S..E, matches exactly the
\* advisories whose timestamp lies in the range of the filter: every
\* advisory returned lies in it, and a page that is not full holds every
\* advisory of the store that does.
C10_DateFilterExact ==
  (ListAnswered /\ (last.request.query.published # <<>>
                    \/ last.request.query.updated # <<>>)) =>
    LET body == last.response.body
        byPublished == last.request.query.published # <<>>
        filter == IF byPublished THEN last.request.query.published[1]
                  ELSE last.request.query.updated[1]
        matches(a) ==
          MatchesDateFilter(IF byPublished THEN a.published_at ELSE a.updated_at, filter)
    IN /\ last.response.status = 200
       /\ \A k \in 1..Len(body) : matches(body[k])
       /\ Len(body) < 30 =>
            \A i \in 1..Len(last.store) :
              matches(last.store[i]) => \E k \in 1..Len(body) : body[k] = last.store[i]

(***************************************************************************)
(* The filters, get and search on a built index, through the REST adapter  *)
(* and through the tools.  As above, a behaviour is one request to one     *)
(* store.                                                                  *)
(***************************************************************************)

Cve2 == <<"C", "V", "E", "-", "2">>

\* The advisory files of the store of the filters: identifiers with and
\* without a CVE alias, severities in several cases, one and two affected
\* packages and none, one and two CWE identifiers and none, a withdrawn
\* advisory, a summary that differs from the details.
FilterOsvs ==
  << OsvG1,
     [OsvG2 EXCEPT !.withdrawn = <<Iso(2026, 2, 1, 0, 0, 0)>>,
                   !.database_specific = <<[cwe_ids |-> <<Cwe89>>, severity |-> Low]>>],
     [OsvG3 EXCEPT !.aliases = << <<G2, Cve2>> >>,
                   !.summary = << <<"Z", "a", "p">> >>,
                   !.details = <<"s", "q", "l">>,
                   !.affected = <<[package |-> [ecosystem |-> "pip", name |-> <<"g", "o">>]],
                                  [package |-> [ecosystem |-> "npm", name |-> <<"l", "i", "e", "s">>]]>>,
                   !.database_specific =
                      <<[cwe_ids |-> <<Cwe89, Cwe79>>, severity |-> <<"H", "i", "g", "h">>]>>],
     [Osv(GhsaId(4), Iso(2026, 1, 31, 23, 59, 59), Iso(2026, 2, 1, 0, 0, 0),
          <<>>, Low, "npm", <<>>)
        EXCEPT !.affected = <<>>,
               !.database_specific = <<[cwe_ids |-> <<>>, severity |-> Low]>>] >>

\* The cache after the walk of a tree of these files.
FilterStore == [i \in 1..Len(FilterOsvs) |-> osvToAdvisory(FilterOsvs[i])]

FilterStores == {FilterStore, QueryStore(PageStoreSize)}

\* A request arrives at a server whose index is built and is answered.
Serve(c, requests) ==
  /\ pc[c] = "idle" /\ indexBuilt
  /\ \E request \in requests :
       Answer(c, request, cache, FALSE, walkCompleted, indexBuilt)
  /\ UNCHANGED <<readable, files, cache, indexBuilt, walkCompleted, diskChanges>>
  /\ UNCHANGED <<sessionVars, refreshVars, callVars>>

\* Date filters of another shape: no date, a month 13, a range without
\* its end, a range whose start is no date.
MalformedDateFilters ==
  { <<"x">>,
    DateString(<<2026, 13, 1>>),
    DateString(<<2026, 1, 27>>) \o DotDot,
    <<"x">> \o DotDot \o DateString(<<2026, 1, 31>>) }

Bogus == <<"b", "o", "g", "u", "s">>

\* Queries with one parameter that is not what the interface allows.
MalformedQueries ==
  {[NoQuery EXCEPT !.published = <<f>>] : f \in MalformedDateFilters}
  \cup {[NoQuery EXCEPT !.updated = <<f>>] : f \in MalformedDateFilters}
  \cup {[NoQuery EXCEPT !.ecosystem = <<"bogus">>],
        [NoQuery EXCEPT !.severity = <<Bogus>>]}

\* Queries with an ecosystem, alone and next to a severity.
EcosystemQueries ==
  {[NoQuery EXCEPT !.ecosystem = <<eco>>, !.severity = severity] :
     eco \in {"npm", "pip", "go"}, severity \in {<<>>, << <<"h", "i", "g", "h">> >>}}

\* The cwes parameter: one identifier, or several separated by commas.
CweLists ==
  {Cwe79, Cwe89, Cwe79 \o <<",">> \o Cwe89, Cwe89 \o <<",">> \o Cwe79}

\* Queries with a cwes parameter, alone and next to a severity.
CweQueries ==
  {[NoQuery EXCEPT !.cwes = <<cwes>>, !.severity = severity] :
     cwes \in CweLists, severity \in {<<>>, << <<"h", "i", "g", "h">> >>}}

\* The queries of the filter specification that either transport can carry.
SharedQueries == MalformedQueries \cup CweQueries

\* An identifier no advisory of the stores has.
G9 == <<"G", "H", "S", "A", "-", "9">>

\* Queries combining the exact-match filters and the package-name filter.
FieldQueries ==
  {[NoQuery EXCEPT !.ghsa_id = ghsa_id, !.cve_id = cve_id, !.severity = severity,
                   !.is_withdrawn = is_withdrawn, !.affects = affects] :
     ghsa_id \in {<<>>, <<G1>>, <<G9>>},
     cve_id \in {<<>>, <<Cve1>>, <<Cve2>>},
     severity \in {<<>>, << <<"h", "i", "g", "h">> >>, << <<"H", "I", "G", "H">> >>,
                   << <<"l", "o", "w">> >>},
     is_withdrawn \in {<<>>, <<"true">>, <<"false">>},
     affects \in {<<>>, << <<"l", "i", "e">> >>, << <<"o">> >>}}

\* GET /advisories requests of the filter specification.
FilterListRequests ==
  {[op |-> "list", query |-> query] :
     query \in SharedQueries \cup EcosystemQueries \cup FieldQueries}

\* Arguments of list_advisories with numbers and booleans.
ToolArguments ==
  {[NoParams EXCEPT !.per_page = per_page, !.is_withdrawn = is_withdrawn,
                    !.severity = severity, !.sort = sort, !.direction = direction] :
     per_page \in {<<>>, <<1>>, <<2>>, <<DefaultPerPage + 1>>},
     is_withdrawn \in {<<>>, <<TRUE>>, <<FALSE>>},
     severity \in {<<>>, << <<"h", "i", "g", "h">> >>},
     sort \in {<<>>, <<"updated">>},
     direction \in {<<>>, <<"asc">>}}

\* list_advisories calls of the filter specification.
FilterToolRequests ==
  {[op |-> "list_advisories", params |-> params] :
     params \in SharedQueries \cup ToolArguments}

\* The identifiers asked for: keys of the store, a key in another case, and
\* an identifier of no advisory.
RequestedIds == {G1, G3, GhsaId(5), G9, <<"g", "h", "s", "a", "-", "1">>}

\* GET /advisories/:ghsa_id requests (the route parameter is never empty).
FilterGetRequests == {[op |-> "get", ghsa_id |-> id] : id \in RequestedIds}

\* get_advisory calls: with an identifier, with the empty string, without
\* arguments.
FilterToolGetRequests ==
  {[op |-> "get_advisory", params |-> [ghsa_id |-> ghsa_id]] :
     ghsa_id \in {<<id>> : id \in RequestedIds} \cup {<< <<>> >>, <<>>}}

\* The search strings: in the summary and description of many advisories,
\* in one primary id, one secondary id, one summary, one description, in none.
SearchStrings ==
  {<<"X", "S">>, <<"g", "h", "s", "a", "-", "3">>, <<"c", "v", "e", "-", "2">>,
   <<"z", "A", "P">>, <<"S", "Q", "L">>, <<"n", "o", "n", "e">>}

\* The filters of list that GET /search does not read.
OtherFilters ==
  {NoQuery,
   [NoQuery EXCEPT !.cwes = <<Cwe89>>, !.is_withdrawn = <<"true">>,
                   !.affects = << <<"z", "z">> >>,
                   !.published = <<DateString(<<2026, 1, 27>>)>>]}

\* The query strings of GET /search.
SearchQueries ==
  {[other EXCEPT !.ecosystem = ecosystem, !.severity = severity, !.per_page = per_page] :
     other \in OtherFilters,
     ecosystem \in {<<>>, <<"npm">>, <<"pip">>},
     severity \in {<<>>, << <<"H", "I", "G", "H">> >>, << <<"l", "o", "w">> >>},
     per_page \in {<<>>} \cup {<<NumberToString(n)>> : n \in {1, 2, DefaultPerPage + 1}}}

\* GET /search requests, with and without q.
FilterSearchRequests ==
  {[op |-> "search", q |-> q, query |-> query] :
     q \in {<<>>} \cup {<<str>> : str \in SearchStrings}, query \in SearchQueries}

\* GET /search.
SearchFiltered(c) ==
  /\ ~Answered
  /\ Serve(c, FilterSearchRequests)

\* GET /advisories with filters.
ListFiltered(c) ==
  /\ ~Answered
  /\ Serve(c, FilterListRequests)

\* GET /advisories/:ghsa_id.
GetAdvisory(c) ==
  /\ ~Answered
  /\ Serve(c, FilterGetRequests)

\* The tool get_advisory.
ToolGetAdvisoryCall(c) ==
  /\ ~Answered
  /\ Serve(c, FilterToolGetRequests)

\* list_advisories with filters.
ToolListFiltered(c) ==
  /\ ~Answered
  /\ Serve(c, FilterToolRequests)

\* A process whose index has been built, with no call under way.
FilterInit ==
  /\ readable = [d \in DirNames |-> TRUE]
  /\ files = FilesWith("G2")
  /\ cache \in FilterStores
  /\ indexBuilt = TRUE
  /\ pc = [c \in Callers |-> "idle"]
  /\ stack = [c \in Callers |-> <<>>]
  /\ pending = [c \in Callers |-> ""]
  /\ last = NoAnswer
  /\ walkCompleted = TRUE
  /\ diskChanges = 0
  /\ NoSessions
  /\ NoRefresh
  /\ NoCalls
  /\ CloneUpToDate

FilterNext ==
  \/ \E c \in Callers : SearchFiltered(c)
  \/ \E c \in Callers : GetAdvisory(c)
  \/ \E c \in Callers : ToolGetAdvisoryCall(c)
  \/ \E c \in Callers : ListFiltered(c)
  \/ \E c \in Callers : ToolListFiltered(c)

SpecFilter == FilterInit /\ [][FilterNext]_vars

\* The latest request answered was a list_advisories tool call.
ToolListAnswered == Answered /\ last.request.op = "list_advisories"

\* The ecosystems and severities of the interface.
Ecosystems ==
  {"rubygems", "npm", "pip", "maven", "nuget", "composer", "go", "rust",
   "erlang", "actions", "pub", "other", "swift"}

Severities ==
  { <<"l", "o", "w">>, <<"m", "e", "d", "i", "u", "m">>, <<"h", "i", "g", "h">>,
    <<"c", "r", "i", "t", "i", "c", "a", "l">>, <<"u", "n", "k", "n", "o", "w", "n">> }

\* s is a calendar date written YYYY-MM-DD.
WellFormedDate(s) ==
  /\ Len(s) = 10
  /\ \A i \in {1, 2, 3, 4, 6, 7, 9, 10} : IsDigit(s[i])
  /\ s[5] = "-" /\ s[8] = "-"
  /\ DateOf(s)[2] \in 1..12
  /\ DateOf(s)[3] \in 1..DaysInMonth(DateOf(s)[1], DateOf(s)[2])

\* s is YYYY-MM-DD or YYYY-MM-DD..YYYY-MM-DD.
WellFormedDateFilter(s) ==
  \/ WellFormedDate(s)
  \/ /\ Len(s) = 22
     /\ WellFormedDate(SubSeq(s, 1, 10))
     /\ SubSeq(s, 11, 12) = DotDot
     /\ WellFormedDate(SubSeq(s, 13, 22))

\* A parameter of the list request is not what the interface allows.
Malformed(q) ==
  \/ q.published # <<>> /\ ~WellFormedDateFilter(q.published[1])
  \/ q.updated # <<>> /\ ~WellFormedDateFilter(q.updated[1])
  \/ q.ecosystem # <<>> /\ q.ecosystem[1] \notin Ecosystems
  \/ q.severity # <<>> /\ q.severity[1] \notin Severities

\* C11: a list request with a malformed date filter, or an ecosystem or
\* severity outside its enumeration, is answered with a rejected-input
\* error (a 4xx status; an error result of the tool), never with a list
\* and never with an internal server error.
C11_MalformedInputRejected ==
  /\ (ListAnswered /\ Malformed(last.request.query)) =>
       last.response.status \in 400..499
  /\ (ToolListAnswered /\ Malformed(last.request.params)) =>
       (last.response.isError /\ last.response.status \in 400..499)

\* The elements of a sequence.
Range(seq) == {seq[i] : i \in 1..Len(seq)}

\* C12: list with an ecosystem filter returns only advisories with at
\* least one vulnerability entry of that ecosystem, and before pagination
\* it holds every such advisory that satisfies the other filters.
C12_EcosystemFilter ==
  (ListAnswered /\ last.request.query.ecosystem # <<>> /\ last.response.status = 200) =>
    LET query == last.request.query
        has(a) == \E i \in 1..Len(a.vulnerabilities) :
                    a.vulnerabilities[i].package.ecosystem = query.ecosystem[1]
    IN \A matches \in {FilterAndSort(last.store, RestListOptions(query))} :
       \A others \in {FilterAndSort(last.store,
                        RestListOptions([query EXCEPT !.ecosystem = <<>>]))} :
         /\ \A k \in 1..Len(last.response.body) : has(last.response.body[k])
         /\ Range(matches.value) = {a \in Range(others.value) : has(a)}

\* ecosystem=npm: the advisory with a pip and an npm entry is returned, the
\* one with only a pip entry is not.
C12_Witness ==
  /\ ListAnswered /\ last.store = FilterStore
  /\ last.request.query.ecosystem = <<"npm">>
  /\ last.request.query.severity = <<>>
  /\ \E k \in 1..Len(last.response.body) : last.response.body[k].ghsa_id = G3
  /\ \A k \in 1..Len(last.response.body) : last.response.body[k].ghsa_id # G2

\* The parts of a string between its commas.
RECURSIVE SplitAtCommas(_)
SplitAtCommas(str) ==
  LET k == indexOf(str, <<",">>)
  IN IF k = 0 THEN {str}
     ELSE {SubSeq(str, 1, k - 1)} \cup SplitAtCommas(SubSeq(str, k + 1, Len(str)))

\* The arguments of the list request that was answered, over either transport.
ListArguments ==
  IF last.request.op = "list" THEN last.request.query ELSE last.request.params

\* The primary ids the answered list request reported, in order.
ReportedIds ==
  IF last.request.op = "list"
  THEN [k \in 1..Len(last.response.body) |-> last.response.body[k].ghsa_id]
  ELSE [k \in 1..Len(last.response.advisories) |-> last.response.advisories[k].ghsa_id]

\* C13: a list request with a comma-separated cwes parameter, over the tool
\* or the REST adapter, returns exactly the advisories matching the other
\* filters that carry at least one of the listed CWE identifiers.
C13_CommaSeparatedCwes ==
  ((ListAnswered \/ ToolListAnswered) /\ ListArguments.cwes # <<>>) =>
    LET ids == SplitAtCommas(ListArguments.cwes[1])
        carries(a) == \E i \in 1..Len(a.cwes) : a.cwes[i].cwe_id \in ids
    IN \A others \in {FilterAndSort(last.store,
                        RestListOptions([ListArguments EXCEPT !.cwes = <<>>]))} :
         Len(others.value) <= DefaultPerPage =>
           /\ last.response.status = 200
           /\ Range(ReportedIds)
                = {a.ghsa_id : a \in {b \in Range(others.value) : carries(b)}}

\* An advisory satisfies every filter the query supplies.
Satisfies(a, query) ==
  /\ query.ghsa_id # <<>> => a.ghsa_id = query.ghsa_id[1]
  /\ query.cve_id # <<>> => a.cve_id = query.cve_id[1]
  /\ query.severity # <<>> =>
       [i \in 1..Len(a.severity) |-> LowerChar(a.severity[i])]
         = [i \in 1..Len(query.severity[1]) |-> LowerChar(query.severity[1][i])]
  /\ query.is_withdrawn = <<"true">> => a.withdrawn_at # <<>>
  /\ query.is_withdrawn = <<"false">> => a.withdrawn_at = <<>>
  /\ query.affects # <<>> =>
       \E i \in 1..Len(a.vulnerabilities) :
         \E from \in 1..(Len(a.vulnerabilities[i].package.name) + 1) :
           \E to \in 0..Len(a.vulnerabilities[i].package.name) :
             SubSeq(a.vulnerabilities[i].package.name, from, to) = query.affects[1]

\* The queries that supply nothing but exact-match and package-name filters.
FieldQueryAnswered ==
  /\ ListAnswered
  /\ last.request.query
       = [NoQuery EXCEPT !.ghsa_id = last.request.query.ghsa_id,
                         !.cve_id = last.request.query.cve_id,
                         !.severity = last.request.query.severity,
                         !.is_withdrawn = last.request.query.is_withdrawn,
                         !.affects = last.request.query.affects]

\* C14: before sorting and pagination the result of list is exactly the set
\* of store entries that satisfy every supplied filter at once (primary id,
\* secondary id, severity ignoring case, withdrawal status, package name
\* containing the affects string); a filter not supplied excludes nothing.
C14_ConjunctionOfFilters ==
  FieldQueryAnswered =>
    LET matching == {a \in Range(last.store) : Satisfies(a, last.request.query)}
    IN /\ last.response.status = 200
       /\ \A r \in {FilterAndSort(last.store, RestListOptions(last.request.query))} :
            ~r.threw /\ Range(r.value) = matching
       /\ Range(last.response.body) \subseteq matching
       /\ Cardinality(matching) <= DefaultPerPage =>
            Range(last.response.body) = matching

\* severity=HIGH with affects=lie: the two advisories of severity high whose
\* package names lie and lies contain the string, and no other.
C14_Witness ==
  /\ FieldQueryAnswered /\ last.store = FilterStore
  /\ last.request.query.severity = << <<"H", "I", "G", "H">> >>
  /\ last.request.query.affects = << <<"l", "i", "e">> >>
  /\ last.request.query.ghsa_id = <<>> /\ last.request.query.cve_id = <<>>
  /\ last.request.query.is_withdrawn = <<>>
  /\ {last.response.body[k].ghsa_id : k \in 1..Len(last.response.body)} = {G1, G3}

\* The keys of the store a request was answered from.
StoreKeys == {last.store[i].ghsa_id : i \in 1..Len(last.store)}

\* GET /advisories/:ghsa_id was answered.
GetAnswered == Answered /\ last.request.op = "get"

\* The tool get_advisory was answered for a string identifier.
ToolGetAnswered ==
  Answered /\ last.request.op = "get_advisory" /\ last.request.params.ghsa_id # <<>>

\* C15: get for an identifier that is not a key of the store returns absent;
\* the REST adapter answers 404 Not Found and the get_advisory tool returns
\* a tool result with isError set whose text contains an error message.
C15_AbsentAdvisory ==
  /\ (GetAnswered /\ last.request.ghsa_id \notin StoreKeys) =>
       /\ getAdvisory(last.store, last.request.ghsa_id) = <<>>
       /\ last.response.status = 404
  /\ (ToolGetAnswered /\ last.request.params.ghsa_id[1] \notin StoreKeys) =>
       /\ getAdvisory(last.store, last.request.params.ghsa_id[1]) = <<>>
       /\ last.response.isError
       /\ \E k \in 1..Len(last.response.text) :
            SubSeq(last.response.text, k, k + 4) = <<"E", "r", "r", "o", "r">>

\* A text contains a string, letters compared without regard to case.
ContainsIgnoringCase(text, str) ==
  \E k \in 1..(Len(text) - Len(str) + 1) :
    \A i \in 1..Len(str) : LowerChar(text[k + i - 1]) = LowerChar(str[i])

\* An advisory is a hit of an answered search: the query is in its summary,
\* detail text, primary or secondary id, and the ecosystem and severity
\* filters of the request hold.
SearchHit(a) ==
  LET query == last.request.query
      str == last.request.q[1]
  IN /\ \/ ContainsIgnoringCase(a.summary, str)
        \/ ContainsIgnoringCase(a.description, str)
        \/ ContainsIgnoringCase(a.ghsa_id, str)
        \/ ContainsIgnoringCase(a.cve_id, str)
     /\ query.ecosystem # <<>> =>
          \E i \in 1..Len(a.vulnerabilities) :
            a.vulnerabilities[i].package.ecosystem = query.ecosystem[1]
     /\ query.severity # <<>> =>
          [i \in 1..Len(a.severity) |-> LowerChar(a.severity[i])]
            = [i \in 1..Len(query.severity[1]) |-> LowerChar(query.severity[1][i])]

\* GET /search with a query was answered.
SearchAnswered ==
  Answered /\ last.request.op = "search" /\ last.request.q # <<>>

\* The page size of an answered search.
SearchPerPage ==
  IF last.request.query.per_page = <<>> THEN DefaultPerPage
  ELSE CHOOSE n \in 1..(DefaultPerPage + 2) :
         NumberToString(n) = last.request.query.per_page[1]

RECURSIVE Decimal(_)
Decimal(n) ==
  LET digit == <<"0", "1", "2", "3", "4", "5", "6", "7", "8", "9">>[(n % 10) + 1]
  IN IF n < 10 THEN <<digit>> ELSE Decimal(n \div 10) \o <<digit>>

\* The query string of GET /advisories that carries the same parameters as
\* the arguments of a tool call.
SameQuery(params) ==
  [params EXCEPT
     !.per_page = IF @ = <<>> THEN <<>> ELSE <<Decimal(@[1])>>,
     !.page = IF @ = <<>> THEN <<>> ELSE <<Decimal(@[1])>>,
     !.is_withdrawn = IF @ = <<>> THEN <<>>
                      ELSE IF @[1] THEN <<"true">> ELSE <<"false">>]

\* C17: for the same parameters the list_advisories tool reports the same
\* advisories in the same order as GET /advisories: its count is the number
\* of advisories the REST API returned and its i-th entry has the ghsa_id of
\* the i-th REST entry.
C17_ToolMatchesRest ==
  ToolListAnswered =>
    \A rest \in {RestList(last.store, SameQuery(last.request.params))} :
      rest.status = 200 =>
        /\ ~last.response.isError
        /\ last.response.count = Len(rest.body)
        /\ Len(last.response.advisories) = Len(rest.body)
        /\ \A i \in 1..Len(rest.body) :
             last.response.advisories[i].ghsa_id = rest.body[i].ghsa_id

\* is_withdrawn: false with per_page: 2 and direction asc: the tool reports
\* the two advisories GET /advisories returns, none of them withdrawn.
C17_Witness ==
  /\ ToolListAnswered /\ last.store = FilterStore
  /\ last.request.params.is_withdrawn = <<FALSE>>
  /\ last.request.params.per_page = <<2>>
  /\ last.request.params.direction = <<"asc">>
  /\ last.request.params.sort = <<>> /\ last.request.params.severity = <<>>
  /\ last.response.count = 2
  /\ last.response.advisories[1].ghsa_id = G3
  /\ last.response.advisories[2].ghsa_id = G1

(***************************************************************************)
(* MCP sessions of the HTTP server (http-server.ts).                       *)
(***************************************************************************)

\* const SESSION_TIMEOUT_MS = 30 * 60 * 1000
SESSION_TIMEOUT_MS == 30 * 60 * 1000

\* Sessions created in a behaviour.
NumSessions == 2

\* Minutes the clock moves in a step, unless a timer is due before.
StepMinutes == 15

\* Steps of the clock in a behaviour.
MaxTicks == 3

\* The identifiers randomUUID returns, one after another, never twice.
UuidPool == <<"uuid-1", "uuid-2", "uuid-3", "uuid-4">>

randomUUID == UuidPool[uuids + 1]

\* The members every object literal inherits from Object.prototype.
ObjectPrototypeKeys == {"constructor"}

\* table[key] of a table that started as {}: an own property, a member
\* inherited from Object.prototype, or undefined (<<>>).
Get(table, key) ==
  IF key \in DOMAIN table THEN <<table[key]>>
  ELSE IF key \in ObjectPrototypeKeys THEN <<[kind |-> "inherited", sessionId |-> key]>>
  ELSE <<>>

\* table[key] = value
Put(table, key, value) ==
  [k \in DOMAIN table \cup {key} |-> IF k = key THEN value ELSE table[k]]

\* delete table[key]
Delete(table, key) == [k \in DOMAIN table \ {key} |-> table[k]]

\* Mutant: cleaning up a session clears every timeout.
cleanupSession_ClearsEveryTimeout(tr, to, tm, cl, sessionId) ==
  LET transport == Get(tr, sessionId)
  IN [transports |-> IF transport # <<>> THEN Delete(tr, sessionId) ELSE tr,
      closed |-> IF transport # <<>> /\ transport[1].kind = "transport"
                 THEN cl \cup {transport[1].sessionId} ELSE cl,
      timers |-> {},
      sessionTimeouts |-> <<>>]

\* cleanupSession on the tables tr (transports) and to (sessionTimeouts),
\* the pending timers tm and the closed transports cl. transport.close()
\* closes the transport and calls its onclose, which is cleanupSession for
\* the same session id; close() of a value that is no transport throws and
\* the error is caught.
cleanupSession(tr, to, tm, cl, sessionId) ==
  LET transport == Get(tr, sessionId)
      timeout == Get(to, sessionId)
  IN [transports |-> IF transport # <<>> THEN Delete(tr, sessionId) ELSE tr,
      closed |-> IF transport # <<>> /\ transport[1].kind = "transport"
                 THEN cl \cup {transport[1].sessionId} ELSE cl,
      timers |-> IF timeout # <<>> THEN tm \ {timeout[1]} ELSE tm,
      sessionTimeouts |-> IF timeout # <<>> THEN Delete(to, sessionId) ELSE to]

\* Mutant: a timeout that is pending is left as it is.
resetSessionTimeout_KeepsPending(to, tm, sessionId, now) ==
  LET timer == [kind |-> "timer", sessionId |-> sessionId,
                due |-> now + SESSION_TIMEOUT_MS]
  IN IF sessionId \in DOMAIN to THEN [sessionTimeouts |-> to, timers |-> tm]
     ELSE [sessionTimeouts |-> Put(to, sessionId, timer), timers |-> tm \cup {timer}]

\* resetSessionTimeout at the time now: the timeout of the session, if any,
\* is cleared and a new one set SESSION_TIMEOUT_MS from now.
resetSessionTimeout(to, tm, sessionId, now) ==
  LET existing == Get(to, sessionId)
      timer == [kind |-> "timer", sessionId |-> sessionId,
                due |-> now + SESSION_TIMEOUT_MS]
  IN [sessionTimeouts |-> Put(to, sessionId, timer),
      timers |-> (IF existing # <<>> THEN tm \ {existing[1]} ELSE tm) \cup {timer}]

\* The values of the mcp-session-id header: none, the identifiers issued so
\* far, an identifier of no session, and the name of an inherited member.
SessionHeaders ==
  {<<>>} \cup {<<UuidPool[n]>> : n \in 1..uuids} \cup {<<"stale">>, <<"constructor">>}

\* app.post("/mcp"): the request of an existing session goes to its
\* transport and restarts its timeout; an initialize request without a
\* session id creates a transport under a fresh id; any other request is
\* answered 400 with code -32600. An error thrown on the way is answered 500
\* with code -32603.
PostMcp(sessionId, initialize) ==
  LET Outcome(status, code, transport, created) ==
        [kind |-> "post", sessionId |-> sessionId, initialize |-> initialize,
         status |-> status, code |-> code, handledBy |-> transport,
         created |-> created, liveBefore |-> DOMAIN transports,
         timedBefore |-> DOMAIN sessionTimeouts]
  IN IF sessionId # <<>> /\ Get(transports, sessionId[1]) # <<>>
     THEN \E r \in {resetSessionTimeout(sessionTimeouts, timers, sessionId[1], clock)} :
          \E transport \in {Get(transports, sessionId[1])[1]} :
            /\ sessionTimeouts' = r.sessionTimeouts
            /\ timers' = r.timers
            /\ lastRequestAt' = Put(lastRequestAt, sessionId[1], clock)
            /\ event' = IF transport.kind = "transport"
                        THEN Outcome(200, 0, <<transport>>, <<>>)
                        ELSE Outcome(500, -32603, <<>>, <<>>)
            /\ UNCHANGED <<transports, closed, uuids>>
     ELSE IF sessionId = <<>> /\ initialize
     THEN /\ uuids < NumSessions
          /\ \E newSessionId \in {randomUUID} :
             \E transport \in {[kind |-> "transport", sessionId |-> newSessionId]} :
             \E r \in {resetSessionTimeout(sessionTimeouts, timers, newSessionId, clock)} :
               /\ uuids' = uuids + 1
               /\ transports' = Put(transports, newSessionId, transport)
               /\ sessionTimeouts' = r.sessionTimeouts
               /\ timers' = r.timers
               /\ lastRequestAt' = Put(lastRequestAt, newSessionId, clock)
               /\ event' = Outcome(200, 0, <<transport>>, <<newSessionId>>)
               /\ UNCHANGED closed
     ELSE /\ event' = Outcome(400, -32600, <<>>, <<>>)
          /\ UNCHANGED <<transports, sessionTimeouts, timers, closed, uuids,
                         lastRequestAt>>

\* The bodies of a request: an initialize request or another one. The body
\* is looked at only when the session id is none of the table.
Bodies(sessionId) ==
  IF sessionId # <<>> /\ Get(transports, sessionId[1]) # <<>> THEN {FALSE} ELSE BOOLEAN

\* A request arrives at POST /mcp.
Post ==
  /\ \E sessionId \in SessionHeaders : \E initialize \in Bodies(sessionId) :
       PostMcp(sessionId, initialize)
  /\ UNCHANGED <<clock, ticks, expired>>
  /\ UNCHANGED <<indexVars, refreshVars, callVars>>

\* The callback of a session's timeout runs once the timer is due.
SessionTimeout ==
  /\ \E timer \in timers :
       /\ timer.due <= clock
       /\ \E r \in {cleanupSession(transports, sessionTimeouts, timers \ {timer},
                                   closed, timer.sessionId)} :
            /\ transports' = r.transports
            /\ sessionTimeouts' = r.sessionTimeouts
            /\ timers' = r.timers
            /\ closed' = r.closed
       /\ expired' = expired \cup {timer.sessionId}
       /\ event' = [kind |-> "timeout", sessionId |-> <<timer.sessionId>>,
                    idle |-> clock - lastRequestAt[timer.sessionId]]
  /\ UNCHANGED <<clock, ticks, uuids, lastRequestAt>>
  /\ UNCHANGED <<indexVars, refreshVars, callVars>>

\* The transport of a session closes and its onclose runs.
TransportClose ==
  /\ \E sessionId \in DOMAIN transports :
       /\ \E r \in {cleanupSession(transports, sessionTimeouts, timers,
                                   closed \cup {sessionId}, sessionId)} :
            /\ transports' = r.transports
            /\ sessionTimeouts' = r.sessionTimeouts
            /\ timers' = r.timers
            /\ closed' = r.closed
       /\ event' = [kind |-> "close", sessionId |-> <<sessionId>>]
  /\ UNCHANGED <<clock, ticks, uuids, lastRequestAt, expired>>
  /\ UNCHANGED <<indexVars, refreshVars, callVars>>

\* Time passes, up to the next timer that is due: the callbacks of due
\* timers run before time passes further.
Tick ==
  /\ ticks < MaxTicks
  /\ \A timer \in timers : timer.due > clock
  /\ \E next \in {clock + StepMinutes * 60 * 1000} :
       clock' = IF \E timer \in timers : timer.due < next
                THEN CHOOSE due \in {timer.due : timer \in timers} :
                       \A timer \in timers : due <= timer.due
                ELSE next
  /\ ticks' = ticks + 1
  /\ event' = [kind |-> "tick"]
  /\ UNCHANGED <<transports, sessionTimeouts, timers, closed, uuids, lastRequestAt,
                 expired>>
  /\ UNCHANGED <<indexVars, refreshVars, callVars>>

SessionInit ==
  /\ readable = [d \in DirNames |-> TRUE]
  /\ files = FilesWith("G2")
  /\ FreshProcess

SessionNext ==
  \/ Post
  \/ SessionTimeout
  \/ TransportClose
  \/ Tick

SpecSession == SessionInit /\ [][SessionNext]_vars

\* The session ids issued so far.
Issued == {UuidPool[n] : n \in 1..uuids}

\* C18: a session without a request for 30 minutes is cleaned up by its
\* timeout: no session stays in the table longer than 30 minutes after its
\* last request, the cleanup closes its transport and removes its id, and
\* every later request with that id is answered 400 Invalid Request. Each
\* request on a live session restarts the period: a timeout never cleans up
\* a session less than 30 minutes after its last request.
C18_SessionTimeout ==
  /\ \A id \in DOMAIN transports : clock - lastRequestAt[id] <= SESSION_TIMEOUT_MS
  /\ \A id \in expired \cap Issued :
       /\ id \notin DOMAIN transports
       /\ id \notin DOMAIN sessionTimeouts
       /\ id \in closed
  /\ (event.kind = "timeout" /\ event.sessionId[1] \in Issued) =>
       event.idle >= SESSION_TIMEOUT_MS
  /\ (event.kind = "post" /\ event.sessionId # <<>>
        /\ event.sessionId[1] \in expired \cap Issued) =>
       (event.status = 400 /\ event.code = -32600)

\* A session that had a request some minutes after its creation was cleaned
\* up by its timeout, and a later request with its id was answered 400.
C18_Witness ==
  /\ event.kind = "post" /\ event.sessionId # <<>>
  /\ event.sessionId[1] \in expired \cap Issued
  /\ lastRequestAt[event.sessionId[1]] > 0
  /\ event.status = 400
  /\ clock >= lastRequestAt[event.sessionId[1]] + SESSION_TIMEOUT_MS

\* C19: POST /mcp handles a request whose session id is in the session
\* table with that session's transport; a request without session id whose
\* body is an initialize request creates exactly one new session with a
\* fresh id; every other request is answered 400 with JSON-RPC code -32600
\* and creates no session.
C19_PostRouting ==
  event.kind = "post" =>
    IF event.sessionId # <<>> /\ event.sessionId[1] \in event.liveBefore
    THEN /\ event.handledBy = <<transports[event.sessionId[1]]>>
         /\ event.handledBy[1].sessionId = event.sessionId[1]
         /\ DOMAIN transports = event.liveBefore
    ELSE IF event.sessionId = <<>> /\ event.initialize
    THEN /\ event.created # <<>>
         /\ event.created[1] \notin event.liveBefore \cup event.timedBefore \cup closed
                                  \cup expired
         /\ DOMAIN transports = event.liveBefore \cup {event.created[1]}
         /\ event.handledBy = <<transports[event.created[1]]>>
    ELSE /\ event.status = 400
         /\ event.code = -32600
         /\ DOMAIN transports = event.liveBefore
         /\ DOMAIN sessionTimeouts = event.timedBefore

\* The session a step of the endpoint is about: the one the request names or
\* creates, the one whose timeout fires, the one whose transport closes.
StepSession(e) ==
  IF e.kind = "post" THEN (IF e.created # <<>> THEN e.created ELSE e.sessionId)
  ELSE IF e.kind \in {"timeout", "close"} THEN e.sessionId
  ELSE <<>>

\* C20: sessions are isolated: creating, using, timing out or closing one
\* session never changes the transport, the pending timeout or the liveness
\* of any other session: the entries of the two tables, the timers that are
\* pending and the transports that are closed differ only for the session
\* the step is about.
C20_SessionsIsolated ==
  [][LET about == StepSession(event')
     IN /\ \A id \in DOMAIN transports \cup DOMAIN transports' :
             <<id>> # about =>
               /\ id \in DOMAIN transports /\ id \in DOMAIN transports'
               /\ transports'[id] = transports[id]
        /\ \A id \in DOMAIN sessionTimeouts \cup DOMAIN sessionTimeouts' :
             <<id>> # about =>
               /\ id \in DOMAIN sessionTimeouts /\ id \in DOMAIN sessionTimeouts'
               /\ sessionTimeouts'[id] = sessionTimeouts[id]
        /\ \A timer \in (timers \ timers') \cup (timers' \ timers) :
             <<timer.sessionId>> = about
        /\ \A id \in (closed \ closed') \cup (closed' \ closed) :
             <<id>> = about]_sessionVars

\* A session was cleaned up by its timeout while a younger session is in the
\* table with its timeout pending.
C20_Witness ==
  /\ event.kind = "timeout"
  /\ \E other \in DOMAIN transports :
       /\ other # event.sessionId[1]
       /\ other \in DOMAIN sessionTimeouts
       /\ sessionTimeouts[other] \in timers
       /\ other \notin closed

(***************************************************************************)
(* The refresh of the advisory database (refreshAdvisoryDatabase,          *)
(* startPeriodicRefresh).                                                  *)
(***************************************************************************)

\* Calls of refreshAdvisoryDatabase in a behaviour.
MaxRefreshes == 2

\* Commits pushed to the origin in a behaviour.
MaxPushes == 1

\* Calls of refreshAdvisoryDatabase in progress at the same time.
MaxConcurrent == 1

\* How a git command ends: exit code 0, another exit code, or the process
\* cannot be spawned (the 'error' event).
GitOutcomes == {"ok", "exit", "error"}

\* The message of the error runGit rejects with, word by word:
\* `git ${args[0]} failed (code ...)` or `git command failed: ...`.
GitError(command, outcome) ==
  IF outcome = "exit" THEN <<"git", command, "failed">>
  ELSE <<"git", "command", "failed">>

\* Mutant: the error is thrown whatever skipOnFailure says.
OnFailure_AlwaysThrows(run, err) ==
  [run EXCEPT !.pc = "done", !.result = "rejected", !.error = err, !.failed = run.pc]

\* The catch blocks of refreshAdvisoryDatabase: return false with
\* skipOnFailure, throw the error otherwise.
OnFailure(run, err) ==
  IF run.skipOnFailure
  THEN [run EXCEPT !.pc = "done", !.result = "false", !.failed = run.pc]
  ELSE [run EXCEPT !.pc = "done", !.result = "rejected", !.error = err, !.failed = run.pc]

\* A call of refreshAdvisoryDatabase up to its first await: without .git
\* the clone is spawned, otherwise rev-parse HEAD for the commit before.
NewRefresh(skipOnFailure, periodic) ==
  [pc |-> IF gitDir THEN "rev-parse" ELSE "clone",
   skipOnFailure |-> skipOnFailure, periodic |-> periodic,
   beforeCommit |-> <<>>, result |-> "", error |-> <<>>, failed |-> "",
   commands |-> <<>>,
   changed |-> FALSE, afterStop |-> periodic /\ stopCalls > 0]

\* The run after the git command it awaits has ended with the outcome, and
\* the clone after it: [run, gitDir, head, originMain].
AfterGit(run, outcome) ==
  LET ran == [run EXCEPT !.commands = Append(@, run.pc)]
      Same(r) == [run |-> r, gitDir |-> gitDir, head |-> head, originMain |-> originMain]
  IN IF run.pc = "clone"
     THEN IF outcome = "ok"
          THEN [run |-> [ran EXCEPT !.pc = "done", !.result = "true", !.changed = TRUE],
                gitDir |-> TRUE, head |-> remote, originMain |-> remote]
          ELSE Same(OnFailure(ran, GitError("clone", outcome)))
     ELSE IF run.pc = "rev-parse"
     THEN Same([ran EXCEPT !.pc = "fetch",
                           !.beforeCommit = IF outcome = "ok" THEN <<head>> ELSE <<>>])
     ELSE IF run.pc = "fetch"
     THEN IF outcome = "ok"
          THEN [run |-> [ran EXCEPT !.pc = "reset"], gitDir |-> gitDir, head |-> head,
                originMain |-> remote]
          ELSE Same(OnFailure(ran, GitError("fetch", outcome)))
     ELSE IF run.pc = "reset"
     THEN IF outcome = "ok"
          THEN [run |-> [ran EXCEPT !.pc = "rev-parse after",
                                    !.changed = @ \/ head # originMain],
                gitDir |-> gitDir, head |-> originMain, originMain |-> originMain]
          ELSE Same(OnFailure(ran, GitError("reset", outcome)))
     ELSE IF run.pc = "rev-parse after"
     THEN LET afterCommit == IF outcome = "ok" THEN <<head>> ELSE <<>>
          IN IF run.beforeCommit = afterCommit
             THEN Same([ran EXCEPT !.pc = "done", !.result = "false"])
             ELSE Same([ran EXCEPT !.pc = "log"])
     ELSE IF outcome = "ok"
          THEN Same([ran EXCEPT !.pc = "done", !.result = "true"])
          ELSE Same(OnFailure(ran, GitError("log", outcome)))

\* A call that has settled holds its local variables no longer.
Returns(run) ==
  IF run.pc = "done" THEN [run EXCEPT !.beforeCommit = <<>>] ELSE run

\* The calls that have not settled yet.
InProgress == {r \in 1..Len(refreshes) : refreshes[r].pc # "done"}

\* Another call may start within the bounds.
MayStart ==
  /\ Len(refreshes) < MaxRefreshes
  /\ Cardinality(InProgress) < MaxConcurrent

\* refreshAdvisoryDatabase is called, with skipOnFailure true or false.
CallRefresh ==
  /\ MayStart
  /\ \E skipOnFailure \in BOOLEAN :
       refreshes' = Append(refreshes, NewRefresh(skipOnFailure, FALSE))
  /\ UNCHANGED <<gitDir, head, originMain, remote, intervalTimer, elapsed, stopCalls>>
  /\ UNCHANGED <<indexVars, sessionVars, callVars>>

\* The git command a call awaits ends. A clone into a directory that holds
\* a clone by now cannot succeed.
GitDone ==
  /\ \E r \in 1..Len(refreshes) : \E outcome \in GitOutcomes :
       /\ refreshes[r].pc # "done"
       /\ (refreshes[r].pc = "clone" /\ gitDir) => outcome # "ok"
       /\ \E after \in {AfterGit(refreshes[r], outcome)} :
            /\ refreshes' = [refreshes EXCEPT ![r] = Returns(after.run)]
            /\ gitDir' = after.gitDir
            /\ head' = after.head
            /\ originMain' = after.originMain
  /\ UNCHANGED <<remote, intervalTimer, elapsed, stopCalls>>
  /\ UNCHANGED <<indexVars, sessionVars, callVars>>

\* A commit is pushed to main at the origin.  A call sees the origin once,
\* at its clone or fetch, so that a commit pushed while the call runs is one
\* pushed before or after it.
Push ==
  /\ remote <= MaxPushes
  /\ InProgress = {}
  /\ remote' = remote + 1
  /\ UNCHANGED <<gitDir, head, originMain, refreshes, intervalTimer, elapsed, stopCalls>>
  /\ UNCHANGED <<indexVars, sessionVars, callVars>>

\* startPeriodicRefresh: setInterval.
StartPeriodic ==
  /\ intervalTimer = "none"
  /\ intervalTimer' = "active"
  /\ UNCHANGED <<gitDir, head, originMain, remote, refreshes, elapsed, stopCalls>>
  /\ UNCHANGED <<indexVars, sessionVars, callVars>>

\* The interval elapses: the callback calls refreshAdvisoryDatabase with
\* skipOnFailure true, inside try/catch.
IntervalElapses ==
  /\ intervalTimer = "active"
  /\ MayStart
  /\ refreshes' = Append(refreshes, NewRefresh(TRUE, TRUE))
  /\ elapsed' = elapsed + 1
  /\ UNCHANGED <<gitDir, head, originMain, remote, intervalTimer, stopCalls>>
  /\ UNCHANGED <<indexVars, sessionVars, callVars>>

\* Mutant: the timer is left running.
clearInterval_LeavesTimer(t) == t

\* clearInterval(timer)
clearInterval(t) == "cleared"

\* The function startPeriodicRefresh returned is called.
StopPeriodic ==
  /\ intervalTimer # "none"
  /\ stopCalls = 0
  /\ intervalTimer' = clearInterval(intervalTimer)
  /\ stopCalls' = stopCalls + 1
  /\ UNCHANGED <<gitDir, head, originMain, remote, refreshes, elapsed>>
  /\ UNCHANGED <<indexVars, sessionVars, callVars>>

\* The clone at the start: missing, or one commit behind the origin.
RefreshInit ==
  /\ readable = [d \in DirNames |-> TRUE]
  /\ files = FilesWith("G2")
  /\ cache = <<>>
  /\ indexBuilt = FALSE
  /\ pc = [c \in Callers |-> "idle"]
  /\ stack = [c \in Callers |-> <<>>]
  /\ pending = [c \in Callers |-> ""]
  /\ last = NoAnswer
  /\ walkCompleted = FALSE
  /\ diskChanges = 0
  /\ NoSessions
  /\ NoRefresh
  /\ NoCalls
  /\ remote = 1
  /\ \/ gitDir = FALSE /\ head = 0 /\ originMain = 0
     \/ gitDir = TRUE /\ head = 0 /\ originMain = 0

RefreshNext ==
  \/ CallRefresh
  \/ GitDone
  \/ Push
  \/ StartPeriodic
  \/ IntervalElapses
  \/ StopPeriodic

SpecRefresh == RefreshInit /\ [][RefreshNext]_vars

(***************************************************************************)
(* Claims about the refresh.                                               *)
(***************************************************************************)

\* The calls of refreshAdvisoryDatabase that have returned a value.
ReturnedRefreshes ==
  {r \in 1..Len(refreshes) : refreshes[r].result \in {"true", "false"}}

\* C21: refreshAdvisoryDatabase returns true exactly when the call changed
\* the local repository: it cloned the missing repository, or its fetch and
\* reset moved HEAD to a different commit; it returns false otherwise.
C21_TrueIffRepositoryChanged ==
  \A r \in ReturnedRefreshes :
    (refreshes[r].result = "true") <=> refreshes[r].changed

\* The errors runGit rejects with for a command.
GitErrors(command) == {GitError(command, outcome) : outcome \in GitOutcomes \ {"ok"}}

PeriodicRefreshes == {r \in 1..Len(refreshes) : refreshes[r].periodic}

\* C23: startPeriodicRefresh starts one refresh each time the interval
\* elapses; a failing refresh raises no error out of the callback and leaves
\* the timer running; once the returned stop function has been called no
\* refresh is started.
C23_PeriodicRefresh ==
  /\ Cardinality(PeriodicRefreshes) = elapsed
  /\ \A r \in PeriodicRefreshes :
       /\ refreshes[r].skipOnFailure
       /\ refreshes[r].result # "rejected"
       /\ ~refreshes[r].afterStop
  /\ (intervalTimer = "active") <=> (intervalTimer # "none" /\ stopCalls = 0)
  /\ (intervalTimer = "active" /\ MayStart) => ENABLED IntervalElapses
  /\ stopCalls > 0 => ~ ENABLED IntervalElapses

\* The first periodic refresh failed at fetch, the interval elapsed again and
\* started a second one, and the stop function has been called since.
C23_Witness ==
  /\ Len(refreshes) = 2
  /\ PeriodicRefreshes = {1, 2}
  /\ refreshes[1].failed = "fetch"
  /\ refreshes[1].result = "false"
  /\ stopCalls = 1

(***************************************************************************)
(* The vulnerabilities of an advisory (osvToAdvisory): one per affected    *)
(* package, with the version range of its first range's events.            *)
(***************************************************************************)

\* Events in a range.
MaxEvents == 2

\* Version strings; the empty string is falsy.
Versions == {"0", "1.2", "2.0", ""}

\* An optional version of an event: absent, or present.
OptionalVersions == {<<>>} \cup {<<v>> : v \in Versions}

\* The events of a range: introduced and fixed are optional (an event may
\* carry last_affected or limit only).
Events == [introduced : OptionalVersions, fixed : OptionalVersions]

\* e.introduced, e.fixed: truthy when present and not empty.
TruthyVersion(opt) == opt # <<>> /\ opt[1] # ""

\* events.find(e => e[field]): the first such event, if any.
RECURSIVE find(_, _)
find(events, field) ==
  IF events = <<>> THEN <<>>
  ELSE IF TruthyVersion(Head(events)[field]) THEN <<Head(events)>>
  ELSE find(Tail(events), field)

\* events.find(e => e[field])?.[field] || otherwise
FoundOr(events, field, otherwise) ==
  LET found == find(events, field)
  IN IF found = <<>> THEN otherwise ELSE found[1][field][1]

\* The template strings, piece by piece.
vulnerableRange(events) ==
  IF Len(events) > 0
  THEN LET introduced == FoundOr(events, "introduced", "")
           fixed == FoundOr(events, "fixed", "")
       IN IF introduced # "" /\ fixed # "" THEN <<">= ", introduced, ", < ", fixed>>
          ELSE IF introduced # "" THEN <<">= ", introduced>>
          ELSE IF fixed # "" THEN <<"< ", fixed>>
          ELSE <<"*">>
  ELSE <<"*">>

\* events.find(e => e.fixed)?.fixed || null, with <<>> for null
firstPatchedVersion(events) ==
  LET found == find(events, "fixed")
  IN IF found = <<>> THEN <<>> ELSE found[1].fixed

\* Mutant: the last range is taken.
FirstRange_Last(affected) ==
  IF affected.ranges = <<>> \/ affected.ranges[1] = <<>> THEN <<>>
  ELSE <<affected.ranges[1][Len(affected.ranges[1])]>>

\* affected.ranges?.[0]: <<>> for undefined
FirstRange(affected) ==
  IF affected.ranges = <<>> \/ affected.ranges[1] = <<>> THEN <<>>
  ELSE <<affected.ranges[1][1]>>

\* range?.events || []
EventsOf(affected) ==
  LET range == FirstRange(affected)
  IN IF range = <<>> \/ range[1].events = <<>> THEN <<>> ELSE range[1].events[1]

\* The callback of osv.affected.map.
Vulnerability(affected) ==
  [vulnerable_version_range |-> vulnerableRange(EventsOf(affected)),
   first_patched_version |-> firstPatchedVersion(EventsOf(affected))]

RECURSIVE SeqsUpTo(_, _)
SeqsUpTo(S, n) ==
  IF n = 0 THEN {<<>>}
  ELSE LET shorter == SeqsUpTo(S, n - 1)
       IN shorter \cup {Append(q, x) : q \in shorter, x \in S}

\* A range with its events, and a range without an events property.
RangeWith(events) == [events |-> <<events>>]
RangeWithoutEvents == [events |-> <<>>]

\* A range that follows the first one.
OtherRange == RangeWith(<<[introduced |-> <<"7.0">>, fixed |-> <<"7.1">>]>>)

\* The affected entries: without ranges, with an empty array of ranges,
\* with one range, or with a second range after it.
AffectedEntries ==
  {[ranges |-> <<>>], [ranges |-> << <<>> >>]}
  \cup {[ranges |-> << <<first>> >>] :
          first \in {RangeWithoutEvents} \cup {RangeWith(ev) : ev \in SeqsUpTo(Events, MaxEvents)}}
  \cup {[ranges |-> << <<first, OtherRange>> >>] :
          first \in {RangeWithoutEvents} \cup {RangeWith(ev) : ev \in SeqsUpTo(Events, MaxEvents)}}

\* osvToAdvisory reaches an entry of osv.affected.
MapAffected ==
  /\ invoked.fn = "none"
  /\ \E affected \in AffectedEntries :
       invoked' = [fn |-> "vulnerabilities", affected |-> affected]
  /\ UNCHANGED <<returned, indexVars, sessionVars, refreshVars>>

\* The callback returns the vulnerability of the entry.
ReturnVulnerability ==
  /\ invoked.fn = "vulnerabilities"
  /\ returned = <<>>
  /\ returned' = <<Vulnerability(invoked.affected)>>
  /\ UNCHANGED <<invoked, indexVars, sessionVars, refreshVars>>

RangeInit ==
  /\ FreshProcess
  /\ readable = [d \in DirNames |-> TRUE]
  /\ files = FilesWith("G2")

RangeNext ==
  \/ MapAffected
  \/ ReturnVulnerability

SpecRange == RangeInit /\ [][RangeNext]_vars

\* The events of the first range of the entry at hand.
FirstRangeEvents ==
  LET ranges == invoked.affected.ranges
  IN IF ranges = <<>> \/ ranges[1] = <<>> \/ ranges[1][1].events = <<>> THEN <<>>
     ELSE ranges[1][1].events[1]

\* The event carries a value of the field.
Carries(e, field) == e[field] # <<>> /\ e[field][1] # ""

\* The value of the field in the first event that carries one, if any.
FirstCarried(events, field) ==
  LET carrying == {k \in 1..Len(events) : Carries(events[k], field)}
  IN IF carrying = {} THEN <<>>
     ELSE <<events[CHOOSE k \in carrying : \A j \in carrying : k <= j][field][1]>>

\* C24: the vulnerable version range of an affected entry is built from the
\* events of its first range: '>= i, < f' with the first introduced value i
\* and the first fixed value f, each searched on its own, '>= i' with an
\* introduced value only, '< f' with a fixed value only, '*' otherwise; the
\* first patched version is the first fixed value, or null.
C24_VersionRange ==
  returned # <<>> =>
    LET i == FirstCarried(FirstRangeEvents, "introduced")
        f == FirstCarried(FirstRangeEvents, "fixed")
    IN /\ returned[1].vulnerable_version_range =
            IF i # <<>> /\ f # <<>> THEN <<">= ", i[1], ", < ", f[1]>>
            ELSE IF i # <<>> THEN <<">= ", i[1]>>
            ELSE IF f # <<>> THEN <<"< ", f[1]>>
            ELSE <<"*">>
       /\ returned[1].first_patched_version = f

\* An entry with two ranges, whose first range has a fixed event before the
\* event that carries introduced: the range joins the two values.
C24_Witness ==
  /\ returned # <<>>
  /\ invoked.affected.ranges # <<>>
  /\ Len(invoked.affected.ranges[1]) = 2
  /\ FirstRangeEvents = <<[introduced |-> <<>>, fixed |-> <<"2.0">>],
                          [introduced |-> <<"1.2">>, fixed |-> <<"0">>]>>
  /\ returned[1].vulnerable_version_range = <<">= ", "1.2", ", < ", "2.0">>
  /\ returned[1].first_patched_version = <<"2.0">>

(***************************************************************************)
(* calculateCVSS3Score.  The code computes in IEEE doubles; the model      *)
(* encloses every product in an interval of fixed-point numbers (eight     *)
(* decimals) that holds the exact product and its rounding, and returns    *)
(* every score some value of the final interval rounds up to.              *)
(***************************************************************************)

\* Fixed point: a number x is the integer x * Unit; HalfUnit splits a
\* number in two words so that products stay within 32 bits.
HalfUnit == 100 * 100

Unit == HalfUnit * HalfUnit

\* The decimal n / d, d a power of ten.
Dec(n, d) == n * (Unit \div d)

Exactly(x) == [lo |-> x, hi |-> x]

\* The product of two fixed-point numbers a, b >= 0, rounded down by less
\* than two units.
MulDown(a, b) ==
  LET a1 == a \div HalfUnit
      a0 == a % HalfUnit
      b1 == b \div HalfUnit
      b0 == b % HalfUnit
  IN a1 * b1 + ((a1 * b0 + a0 * b1) \div HalfUnit)

Negated(I) == [lo |-> -I.hi, hi |-> -I.lo]

PositiveTimes(I, J) == [lo |-> MulDown(I.lo, J.lo) - 1, hi |-> MulDown(I.hi, J.hi) + 3]

\* I * J in doubles; a product by 0 or 1 is exact.
Times(I, J) ==
  IF I = Exactly(0) \/ J = Exactly(0) THEN Exactly(0)
  ELSE IF I = Exactly(Unit) THEN J
  ELSE IF J = Exactly(Unit) THEN I
  ELSE IF I.lo >= 0 /\ J.lo >= 0 THEN PositiveTimes(I, J)
  ELSE IF I.hi <= 0 /\ J.lo >= 0 THEN Negated(PositiveTimes(Negated(I), J))
  ELSE IF I.lo >= 0 /\ J.hi <= 0 THEN Negated(PositiveTimes(I, Negated(J)))
  ELSE LET m == MulDown(Max(-I.lo, I.hi), Max(-J.lo, J.hi)) + 3
       IN [lo |-> -m, hi |-> m]

Plus(I, J) == [lo |-> I.lo + J.lo, hi |-> I.hi + J.hi]

Minus(I, J) == [lo |-> I.lo - J.hi, hi |-> I.hi - J.lo]

Minimum(I, J) == [lo |-> Min(I.lo, J.lo), hi |-> Min(I.hi, J.hi)]

\* Math.pow(I, n), n >= 1
RECURSIVE Power(_, _)
Power(I, n) == IF n = 1 THEN I ELSE Times(Power(I, n - 1), I)

\* Math.ceil(x * 10) / 10, as a number of tenths.
CeilTenths(x) == (x + (Unit \div 10) - 1) \div (Unit \div 10)

\* vectorString.split('/').slice(1), each part split at ':': the metrics
\* object, a later part overwriting an earlier one; "" for undefined.
MetricsOf(parts) ==
  [key \in {"AV", "AC", "PR", "UI", "S", "C", "I", "A"} |->
     LET at == {k \in 1..Len(parts) : parts[k][1] = key}
     IN IF at = {} THEN ""
        ELSE parts[CHOOSE k \in at : \A j \in at : j <= k][2]]

avScore(metrics) ==
  IF metrics.AV = "N" THEN Dec(85, 100)
  ELSE IF metrics.AV = "A" THEN Dec(62, 100)
  ELSE IF metrics.AV = "L" THEN Dec(55, 100)
  ELSE IF metrics.AV = "P" THEN Dec(2, 10)
  ELSE 0

acScore(metrics) ==
  IF metrics.AC = "L" THEN Dec(77, 100)
  ELSE IF metrics.AC = "H" THEN Dec(44, 100)
  ELSE 0

\* Mutant: the weights of an unchanged scope, whatever the scope.
prScore_IgnoresScope(metrics) ==
  IF metrics.PR = "N" THEN Dec(85, 100)
  ELSE IF metrics.PR = "L" THEN Dec(62, 100)
  ELSE IF metrics.PR = "H" THEN Dec(27, 100)
  ELSE 0

prScore(metrics) ==
  IF metrics.PR = "N" THEN Dec(85, 100)
  ELSE IF metrics.PR = "L" THEN (IF metrics.S = "C" THEN Dec(68, 100) ELSE Dec(62, 100))
  ELSE IF metrics.PR = "H" THEN (IF metrics.S = "C" THEN Dec(50, 100) ELSE Dec(27, 100))
  ELSE 0

uiScore(metrics) ==
  IF metrics.UI = "N" THEN Dec(85, 100)
  ELSE IF metrics.UI = "R" THEN Dec(62, 100)
  ELSE 0

\* cScore, iScore, aScore
ciaScore(value) ==
  IF value = "H" THEN Dec(56, 100)
  ELSE IF value = "L" THEN Dec(22, 100)
  ELSE 0

exploitability(metrics) ==
  Times(Times(Times(Times(Exactly(Dec(822, 100)), Exactly(avScore(metrics))),
                    Exactly(acScore(metrics))),
              Exactly(prScore(metrics))),
        Exactly(uiScore(metrics)))

impactSubScore(metrics) ==
  LET one == Exactly(Dec(1, 1))
  IN Minus(one, Times(Times(Minus(one, Exactly(ciaScore(metrics.C))),
                            Minus(one, Exactly(ciaScore(metrics.I)))),
                      Minus(one, Exactly(ciaScore(metrics.A)))))

impact(metrics) ==
  LET iss == impactSubScore(metrics)
  IN IF metrics.S = "C"
     THEN Minus(Times(Minus(iss, Exactly(Dec(29, 1000))), Exactly(Dec(752, 100))),
                Times(Power(Minus(Times(iss, Exactly(Dec(9731, 10000))),
                                  Exactly(Dec(2, 100))), 13),
                      Exactly(Dec(325, 100))))
     ELSE Times(iss, Exactly(Dec(642, 100)))

\* The values baseScore may take: both branches of impact <= 0 where the
\* interval of impact holds zero.
baseScore(metrics) ==
  LET imp == impact(metrics)
      sum == Plus(imp, exploitability(metrics))
      ten == Exactly(Dec(10, 1))
  IN (IF imp.lo <= 0 THEN {Exactly(0)} ELSE {})
     \cup (IF imp.hi > 0
           THEN {IF metrics.S = "U" THEN Minimum(sum, ten)
                 ELSE Minimum(Times(sum, Exactly(Dec(108, 100))), ten)}
           ELSE {})

\* The scores calculateCVSS3Score may return, in tenths.
calculateCVSS3Score(parts) ==
  UNION {CeilTenths(b.lo)..CeilTenths(b.hi) : b \in baseScore(MetricsOf(parts))}

\* The base metrics of a vector in the order of the standard.
BaseVector(av, ac, pr, ui, s, c, i, a) ==
  << <<"AV", av>>, <<"AC", ac>>, <<"PR", pr>>, <<"UI", ui>>, <<"S", s>>,
     <<"C", c>>, <<"I", i>>, <<"A", a>> >>

\* Every CVSS v3 vector of base metrics.
BaseVectors ==
  {BaseVector(av, ac, pr, ui, s, c, i, a) :
     av \in {"N", "A", "L", "P"}, ac \in {"L", "H"}, pr \in {"N", "L", "H"},
     ui \in {"N", "R"}, s \in {"U", "C"}, c \in {"H", "L", "N"},
     i \in {"H", "L", "N"}, a \in {"H", "L", "N"}}

\* osvToAdvisory finds a CVSS_V3 severity and calls calculateCVSS3Score.
CallCalculateScore ==
  /\ invoked.fn = "none"
  /\ \E parts \in BaseVectors :
       invoked' = [fn |-> "calculateCVSS3Score", parts |-> parts]
  /\ UNCHANGED <<returned, indexVars, sessionVars, refreshVars>>

\* calculateCVSS3Score returns.
ReturnScore ==
  /\ invoked.fn = "calculateCVSS3Score"
  /\ returned = <<>>
  /\ \E scores \in {calculateCVSS3Score(invoked.parts)} : \E score \in scores :
       returned' = <<score>>
  /\ UNCHANGED <<invoked, indexVars, sessionVars, refreshVars>>

ScoreInit == RangeInit

ScoreNext ==
  \/ CallCalculateScore
  \/ ReturnScore

SpecScore == ScoreInit /\ [][ScoreNext]_vars

(***************************************************************************)
(* The base score of CVSS v3.1 (specification document, section 7.1 to     *)
(* 7.4), in the same fixed-point intervals.                                *)
(***************************************************************************)
StandardWeights ==
  [AV |-> [N |-> Dec(85, 100), A |-> Dec(62, 100), L |-> Dec(55, 100), P |-> Dec(2, 10)],
   AC |-> [L |-> Dec(77, 100), H |-> Dec(44, 100)],
   PRUnchanged |-> [N |-> Dec(85, 100), L |-> Dec(62, 100), H |-> Dec(27, 100)],
   PRChanged |-> [N |-> Dec(85, 100), L |-> Dec(68, 100), H |-> Dec(5, 10)],
   UI |-> [N |-> Dec(85, 100), R |-> Dec(62, 100)],
   CIA |-> [H |-> Dec(56, 100), L |-> Dec(22, 100), N |-> 0]]

\* Roundup of the standard: the smallest number of tenths that is not
\* smaller than x rounded to five decimals.
StandardRoundup(x) ==
  LET input == (x + 500) \div 1000
  IN IF input % 10000 = 0 THEN input \div 10000 ELSE (input \div 10000) + 1

\* The base scores of the standard for the metric values, in tenths.
StandardBaseScore(av, ac, pr, ui, s, c, i, a) ==
  LET W == StandardWeights
      one == Exactly(Dec(1, 1))
      iss == Minus(one, Times(Times(Minus(one, Exactly(W.CIA[c])),
                                    Minus(one, Exactly(W.CIA[i]))),
                              Minus(one, Exactly(W.CIA[a]))))
      imp == IF s = "U" THEN Times(Exactly(Dec(642, 100)), iss)
             ELSE Minus(Times(Exactly(Dec(752, 100)), Minus(iss, Exactly(Dec(29, 1000)))),
                        Times(Exactly(Dec(325, 100)),
                              Power(Minus(Times(iss, Exactly(Dec(9731, 10000))),
                                          Exactly(Dec(2, 100))), 13)))
      privileges == IF s = "U" THEN W.PRUnchanged[pr] ELSE W.PRChanged[pr]
      expl == Times(Times(Times(Times(Exactly(Dec(822, 100)), Exactly(W.AV[av])),
                                Exactly(W.AC[ac])),
                          Exactly(privileges)),
                    Exactly(W.UI[ui]))
      ten == Exactly(Dec(10, 1))
      base == IF s = "U" THEN Minimum(Plus(imp, expl), ten)
              ELSE Minimum(Times(Exactly(Dec(108, 100)), Plus(imp, expl)), ten)
  IN (IF imp.lo <= 0 THEN {0} ELSE {})
     \cup (IF imp.hi > 0 THEN StandardRoundup(base.lo)..StandardRoundup(base.hi) ELSE {})

\* The value of a metric in the vector at hand.
Metric(key) ==
  LET parts == invoked.parts
  IN parts[CHOOSE k \in 1..Len(parts) : parts[k][1] = key][2]

GhsaPattern(id) ==
  /\ Len(id) = 19
  /\ SubSeq(id, 1, 5) = <<"G", "H", "S", "A", "-">>
  /\ id[10] = "-"
  /\ id[15] = "-"
  /\ \A k \in (6..9) \cup (11..14) \cup (16..19) : id[k] \notin {"-", "/", ".", "?", "#", " "}

\* The tool get_advisory was answered, with or without a ghsa_id.
ToolGetCalled == Answered /\ last.request.op = "get_advisory"

\* C26: get_advisory sends a request to the local API only for a ghsa_id of
\* the form GHSA-xxxx-xxxx-xxxx; a missing, empty or other ghsa_id gets an
\* error result and reaches no endpoint of the local API (status 0: no
\* response of the local API).
C26_OnlyGhsaIdsReachApi ==
  ToolGetCalled =>
    LET ghsa_id == last.request.params.ghsa_id
    IN (ghsa_id = <<>> \/ ~GhsaPattern(ghsa_id[1])) =>
         /\ last.response.isError
         /\ last.response.status = 0

\* C27: for every integer page supplied, 0 and negative ones included, list
\* returns the elements at the positions of [(page-1)*per_page,
\* page*per_page) that exist in the filtered and sorted sequence, in order;
\* a page whose interval holds no position of the sequence returns nothing.
C27_EveryPageIsItsSlice ==
  (ListAnswered /\ last.request.query.page # <<>>) =>
    \A options \in {RestListOptions(last.request.query)} :
    \A matches \in {FilterAndSort(last.store, options)} :
      LET perPage == IF options.per_page = <<>> THEN DefaultPerPage ELSE options.per_page[1]
          page == options.page[1]
          positions == {k \in 0..(Len(matches.value) - 1) :
                          (page - 1) * perPage <= k /\ k < page * perPage}
      IN (options.page # <<>> /\ perPage >= 1 /\ ~matches.threw) =>
           /\ Len(last.response.body) = Cardinality(positions)
           /\ \A k \in positions :
                last.response.body[k - (page - 1) * perPage + 1] = matches.value[k + 1]

(***************************************************************************)
(* Claims about the two tables of the MCP endpoint.                        *)
(***************************************************************************)

\* C28: between request handlers and timer callbacks the session table and
\* the timeout table have the same keys: every stored transport has exactly
\* one pending timeout, and no timeout is pending for a session without a
\* stored transport.
C28_TablesHaveSameKeys ==
  /\ DOMAIN transports = DOMAIN sessionTimeouts
  /\ \A id \in DOMAIN transports :
       Cardinality({timer \in timers : timer.sessionId = id}) = 1
  /\ \A timer \in timers : timer.sessionId \in DOMAIN transports

(***************************************************************************)
(* cleanupSession, call by call.  transport.close() calls the transport's  *)
(* onclose, which is () => cleanupSession(newSessionId); the entry of the   *)
(* session table is deleted after close() has returned, so that the nested *)
(* call reads the same transport.  Everything runs in one turn of the      *)
(* event loop.                                                             *)
(***************************************************************************)

\* Frames of cleanupSession the call stack has room for.
MaxStackDepth == 4

NoCall == [fn |-> "none"]

\* A request arrives at POST /mcp while no cleanup runs.
PostBetweenCleanups ==
  /\ invoked = NoCall
  /\ Post

\* cleanupSession(sessionId) is called by the callback of the session's
\* timeout.
CleanupCalled ==
  /\ invoked = NoCall
  /\ \E sessionId \in DOMAIN sessionTimeouts :
       invoked' = [fn |-> "cleanupSession", sessionId |-> sessionId, depth |-> 1,
                   closes |-> 0, overflowed |-> FALSE, unwinding |-> FALSE]
  /\ returned' = <<>>
  /\ UNCHANGED <<sessionVars, indexVars, refreshVars>>

\* The innermost cleanupSession finds the transport in the table and calls
\* transport.close(), which calls onclose, which calls cleanupSession.
CloseCallsCleanup ==
  /\ invoked.fn = "cleanupSession"
  /\ ~invoked.unwinding
  /\ invoked.sessionId \in DOMAIN transports
  /\ invoked.depth < MaxStackDepth
  /\ invoked' = [invoked EXCEPT !.depth = @ + 1, !.closes = @ + 1]
  /\ closed' = closed \cup {invoked.sessionId}
  /\ UNCHANGED <<transports, sessionTimeouts, timers, clock, uuids, lastRequestAt, expired,
                 event, ticks>>
  /\ UNCHANGED <<returned, indexVars, refreshVars>>

\* The call stack is exhausted: a RangeError is raised in the innermost
\* call; the catch of cleanupSession takes it, or it becomes the rejection
\* of the promise close() returns, and the calls below it go on.
StackExhausted ==
  /\ invoked.fn = "cleanupSession"
  /\ ~invoked.unwinding
  /\ invoked.sessionId \in DOMAIN transports
  /\ invoked.depth = MaxStackDepth
  /\ invoked' = [invoked EXCEPT !.overflowed = TRUE, !.unwinding = TRUE]
  /\ UNCHANGED <<returned, sessionVars, indexVars, refreshVars>>

\* The innermost cleanupSession runs to its end: it finds no transport (or
\* close() has returned or thrown), deletes the entry of the session table,
\* clears and deletes the timeout, and returns to its caller.
CleanupReturns ==
  /\ invoked.fn = "cleanupSession"
  /\ invoked.unwinding \/ invoked.sessionId \notin DOMAIN transports
  /\ \E r \in {cleanupSession(transports, sessionTimeouts, timers, closed,
                              invoked.sessionId)} :
       /\ transports' = r.transports
       /\ sessionTimeouts' = r.sessionTimeouts
       /\ timers' = r.timers
       /\ closed' = r.closed
       /\ IF invoked.depth = 1
          THEN /\ returned' =
                    <<[sessionId |-> invoked.sessionId, closes |-> invoked.closes,
                       overflowed |-> invoked.overflowed,
                       stored |-> invoked.sessionId \in DOMAIN r.transports,
                       timed |-> invoked.sessionId \in DOMAIN r.sessionTimeouts]>>
               /\ invoked' = NoCall
          ELSE /\ invoked' = [invoked EXCEPT !.depth = @ - 1, !.unwinding = TRUE]
               /\ UNCHANGED returned
  /\ UNCHANGED <<clock, uuids, lastRequestAt, expired, event, ticks>>
  /\ UNCHANGED <<indexVars, refreshVars>>

CleanupInit == SessionInit

CleanupNext ==
  \/ PostBetweenCleanups
  \/ CleanupCalled
  \/ CloseCallsCleanup
  \/ StackExhausted
  \/ CleanupReturns

SpecCleanup == CleanupInit /\ [][CleanupNext]_vars

\* C29: cleanupSession(s) terminates: the chain cleanupSession, close,
\* onclose, cleanupSession closes the transport at most twice and does not
\* run until the call stack is exhausted, and once the call has returned s
\* is in neither table.
C29_CleanupTerminates ==
  /\ invoked.fn = "cleanupSession" =>
       /\ invoked.closes <= 2
       /\ ~invoked.overflowed
  /\ returned # <<>> =>
       /\ returned[1].closes <= 2
       /\ ~returned[1].overflowed
       /\ ~returned[1].stored
       /\ ~returned[1].timed

(***************************************************************************)
(* Concurrent first callers.                                               *)
(***************************************************************************)

\* The well-formed files of the tree in traversal order.
WellFormedInOrder ==
  SelectSeq(TreeFiles, LAMBDA f : WellFormed(Content(files[f])))

\* The store of one build that reads the files one after another: the
\* identifiers in the order in which they first occur, each with the
\* record of the last file that defines it.
SequentialStore ==
  LET wf == WellFormedInOrder
      IdOf(k) == Content(files[wf[k]]).osv.id
      firsts == {k \in 1..Len(wf) : \A j \in 1..(k - 1) : IdOf(j) # IdOf(k)}
      LastOf(k) == CHOOSE j \in 1..Len(wf) :
                     /\ IdOf(j) = IdOf(k)
                     /\ \A i \in (j + 1)..Len(wf) : IdOf(i) # IdOf(k)
      Nth(n) == CHOOSE k \in firsts : Cardinality({j \in firsts : j < k}) = n - 1
  IN [n \in 1..Cardinality(firsts) |-> osvToAdvisory(Content(files[wf[LastOf(Nth(n))]]).osv)]

\* C30: over an unchanged tree, once every build of the calls that started
\* one has finished, the store equals the store of a single sequential
\* build, the record of an identifier that several files define being that
\* of the last such file in traversal order.
C30_ConcurrentBuildsAgree ==
  Settled => cache = SequentialStore

\* Two first callers walked a tree in which a.json and b.json define
\* GHSA-1; both walks have ended, and the store holds the record of b.json.
C30_Witness ==
  /\ Settled
  /\ last.raced
  /\ files["a.json"] = "G1dup" /\ files["b.json"] = "G1"
  /\ Len(cache) = 2
  /\ cache[1] = osvToAdvisory(OsvG1)
  /\ osvToAdvisory(OsvG1) # osvToAdvisory(OsvG1Dup)

====
